---- MODULE Spec2Model ----
(***************************************************************************)
(* A model of the process fleet manager of the llama.cpp gateway           *)
(* (internal/process/manager.go) and of the part of the proxy handler that *)
(* drives it (internal/api/handler.go).                                    *)
(*                                                                         *)
(* Atomicity.  Every action is one critical section of the Go code (the    *)
(* statements executed between m.mu.Lock() and m.mu.Unlock(), or between   *)
(* queueMu.Lock() and queueMu.Unlock()), or one lock-free step of a        *)
(* goroutine (a channel receive, a timer firing, a probe, an atomic add).  *)
(* drainQueue holds queueMu for its whole loop and takes m.mu once per     *)
(* entry of the drained model: it is one step per such entry.              *)
(***************************************************************************)
EXTENDS Integers, Sequences, FiniteSets, TLC

\* ------------------------------------------------------------------ bounds
MaxCalls == 5
MainCalls == 3
MaxBackends == 4
MaxClock == 2
MaxRR == 2
SuperviseCalls == 2
MaxEnv == 1
MaxShutdowns == 2
MaxGoroutines == 3
MaxIterations == 1
AfterMin == 1
MaxEntries == 2
MaxCacheOps == 5
TTL == 3
MaxModels == 2
MaxNameLen == 2
MaxAliasLen == 1

\* ------------------------------------------------------- program constants
PortRangeStart == 8081
StatusServiceUnavailable == 503
StatusNotFound == 404
StatusOK == 200
StatusInternalServerError == 500
StatusBadGateway == 502
\* Shutdown: deadline := time.Now().Add(30 * time.Second), in seconds.
DrainCeiling == 30
\* Shutdown: time.Sleep(1 * time.Second)
SleepSeconds == 1

Calls == 1..MaxCalls
NoModel == "none"

\* Nothing was written to the client yet.
NoResponse == [code |-> 0, body |-> "none", exit |-> "none", stream |-> FALSE]

\* No request's model field is being resolved.
NoResolve == [Models |-> <<>>, requested |-> <<>>, modelName |-> <<>>,
              code |-> 0, done |-> FALSE]

\* What a Shutdown call left behind, before any call has returned.
NoSnapshot == [backends |-> <<>>, State |-> <<>>, queue |-> <<>>,
               idle |-> {}, quiet |-> FALSE]

\* The goroutines beside the calls: the one main starts for HealthCheck and
\* the one that calls Shutdown.
healthChecker == MaxCalls + 1
shutdownCaller == MaxCalls + 2
Threads == Calls \cup {healthChecker, shutdownCaller}

Range(s) == {s[i] : i \in DOMAIN s}

\* config.ModelConfig with n instances: no request timeout, the model file
\* is on disk.
model(n) == [Instances |-> n, TimeoutSec |-> 0, ModelPath |-> "gguf",
             AutoDownload |-> FALSE]

\* config.Config: the configured models (name -> ModelConfig), the capacity
\* bound and the queue settings.
ModelsAB == [A |-> model(1), B |-> model(2)]
cfgS4 == [Models |-> ModelsAB, MaxLoadedModels |-> 1,
          Queue |-> [Enabled |-> TRUE, MaxSize |-> 2]]
cfgNoQueue == [Models |-> ModelsAB, MaxLoadedModels |-> 2,
               Queue |-> [Enabled |-> FALSE, MaxSize |-> 2]]
cfgSmallQueue == [Models |-> ModelsAB, MaxLoadedModels |-> 1,
                  Queue |-> [Enabled |-> TRUE, MaxSize |-> 1]]
Configs == {cfgS4, cfgNoQueue, cfgSmallQueue}

\* Three models for a capacity of two, no queue.
cfgEvict == [Models |-> [A |-> model(1), B |-> model(2), C |-> model(1)],
             MaxLoadedModels |-> 2,
             Queue |-> [Enabled |-> FALSE, MaxSize |-> 2]]
\* One model with one instance.
cfgOne == [Models |-> [A |-> model(1)], MaxLoadedModels |-> 1,
           Queue |-> [Enabled |-> FALSE, MaxSize |-> 2]]
\* A model with three replicas beside a single one, room for all of them.
cfgRR == [Models |-> [A |-> model(1), B |-> model(3)],
          MaxLoadedModels |-> 4,
          Queue |-> [Enabled |-> FALSE, MaxSize |-> 2]]

\* Two models with one instance each and room for both.
cfgTwo == [Models |-> [A |-> model(1), B |-> model(1)], MaxLoadedModels |-> 2,
           Queue |-> [Enabled |-> FALSE, MaxSize |-> 2]]

\* Model A answers non-streaming requests within timeout_sec seconds or
\* not at all; B has no request timeout.
cfgTimeout == [Models |-> [A |-> [model(1) EXCEPT !.TimeoutSec = 60],
                           B |-> model(1)],
               MaxLoadedModels |-> 2,
               Queue |-> [Enabled |-> FALSE, MaxSize |-> 2]]

\* Model A has no file on disk yet and is downloaded on its first load.
cfgDownload == [Models |-> [A |-> [model(1) EXCEPT !.ModelPath = "",
                                                   !.AutoDownload = TRUE],
                            B |-> model(1)],
                MaxLoadedModels |-> 2,
                Queue |-> [Enabled |-> FALSE, MaxSize |-> 2]]

\* ScheduledAction: unload model A once it was idle for AfterMin.
unloadIdleA == [Type |-> "unload_idle", Model |-> "A", AfterMin |-> AfterMin]

VARIABLES
    cfg,        \* Manager.cfg
    maxLoaded,  \* Manager.maxLoaded
    backends,   \* Manager.backends: model name -> [backends, rrIdx]
    heap,       \* the Backend objects ever allocated; a *Backend is an index
    nextPort,   \* Manager.nextPort
    queue,      \* Manager.queue: the entries, each named by its caller
    entryReady, \* QueueEntry.Ready of each caller: 0 (empty) or a *Backend
    drain,      \* the drainQueue call holding queueMu, its position, remaining
    pc,         \* where each proxyToModel call is
    cmodel,     \* the model name each call asked for
    cb,         \* the *Backend each call waits for or holds (0: none)
    cstart,     \* the backends a call has still to pass to startBackend
    ret,        \* the latest return of EnsureModel: the call and what it got
    env,        \* how many outside events (unload, probe failure, reload) occurred
    now,        \* time.Now()
    locks,      \* the locks (m.mu, m.queueMu) each goroutine holds between
                \* two steps, in the order it took them
    health,     \* where the HealthCheck goroutine is in its tick
    shutdown,   \* where the Shutdown call is, and its clock
    status,     \* what proxyToModel wrote to the client of each call
    resolve,    \* a request's model field, the models it is resolved against
                \* and the resolved name
    prog,       \* the Lock and Unlock calls each goroutine has still to make
                \* in the Manager method it runs
    sched,      \* where the goroutine of the scheduled action is in its tick
    cache       \* ResponseCache.entries (key -> createdAt), the time, and
                \* for each entry when it was last set or read

\* The state of the operations beside the request path.
rest == <<health, shutdown, status, resolve, prog, sched, cache>>

vars == <<cfg, maxLoaded, backends, heap, nextPort, queue, entryReady, drain,
          pc, cmodel, cb, cstart, ret, env, now, locks, rest>>

\* ---------------------------------------------------------------- helpers
\* The goroutines that hold the lock between two steps.
holders(lock) == {t \in Threads : \E i \in DOMAIN locks[t] : locks[t][i] = lock}

\* m.mu.Lock() returns at once: no goroutine holds m.mu.
muFree == holders("mu") = {}

InMap(bk) == UNION {Range(bk[m].backends) : m \in DOMAIN bk}

getReadyBackends(mb, hp) ==
    SelectSeq(mb.backends, LAMBDA b : hp[b].State = "Ready")

\* for _, b := range mb.backends { if b.State == StateStarting {...} }
firstStarting(mb, hp) ==
    LET s == SelectSeq(mb.backends, LAMBDA b : hp[b].State = "Starting")
    IN IF s = <<>> THEN 0 ELSE s[1]

\* The count evictIfNeeded starts with.
loaded(bk, hp) ==
    Cardinality({b \in InMap(bk) : hp[b].State \in {"Ready", "Starting"}})

\* evictable without the graceful drain: every Ready backend.
evictable_Busy(bk, hp) == {b \in InMap(bk) : hp[b].State = "Ready"}

\* The Ready backends without in-flight requests.
evictable(bk, hp) ==
    {b \in InMap(bk) : hp[b].State = "Ready" /\ ~(hp[b].ActiveReqs > 0)}

\* evictIfNeeded: the outcomes the map's iteration order allows.  The loop
\* keeps the first backend it meets and replaces it only by one used
\* strictly Before it.
evictIfNeeded(bk, hp, max) ==
    IF loaded(bk, hp) < max
    THEN {[err |-> FALSE, victim |-> NoModel]}
    ELSE LET lru == {b \in evictable(bk, hp) :
                       \A e \in evictable(bk, hp) :
                           ~(hp[e].LastUsed < hp[b].LastUsed)}
         IN IF lru = {}
            THEN {[err |-> TRUE, victim |-> NoModel]}
            ELSE {[err |-> FALSE, victim |-> hp[b].model] : b \in lru}

\* stopModel: cancel and mark Stopped every backend of the group ...
stopModelHeap(bk, hp, name) ==
    IF name \notin DOMAIN bk THEN hp
    ELSE [i \in DOMAIN hp |->
            IF i \in Range(bk[name].backends)
            THEN [hp[i] EXCEPT !.State = "Stopped",
                               !.cancel = IF @ = "nil" THEN "nil" ELSE "called",
                               !.Process = IF hp[i].cancel = "nil" THEN @
                                           ELSE IF @ = "running" THEN "killed" ELSE @]
            ELSE hp[i]]

\* ... and delete(m.backends, name).
stopModelMap(bk, name) == [m \in DOMAIN bk \ {name} |-> bk[m]]

\* ListLoaded: the names of the groups with a Ready backend, each once, in
\* the order the range over the map produces them: any order.
ListLoaded(bk, hp) ==
    LET L == {m \in DOMAIN bk : getReadyBackends(bk[m], hp) # <<>>}
    IN {s \in [1..Cardinality(L) -> L] : Range(s) = L}

\* proxyToModel after EnsureModel: writeError(w, http.StatusServiceUnavailable,
\* ...) for every error; 0: no status is written, the request is proxied.
StatusOf(res) == IF res = "ok" THEN 0 ELSE StatusServiceUnavailable

\* EnsureModel returns (b, nil) or (nil, err) to proxyToModel, which answers
\* 503 on an error and is over then: its locals are dead.
Return(c, b, res) ==
    /\ pc' = [pc EXCEPT ![c] = IF res = "ok" THEN "acquired" ELSE "done"]
    /\ ret' = [call |-> c, res |-> res]
    /\ cb' = [cb EXCEPT ![c] = IF res = "ok" THEN b ELSE 0]
    /\ cmodel' = [cmodel EXCEPT ![c] = IF res = "ok" THEN @ ELSE NoModel]

\* ------------------------------------------------------------------- Init
\* No call has arrived, the queue is empty, nothing happened from outside.
NoCallsWith(r) ==
    /\ queue = <<>>
    /\ entryReady = [c \in Calls |-> 0]
    /\ drain = [holder |-> 0, pos |-> 0, remaining |-> <<>>]
    /\ pc = [c \in Calls |-> "idle"]
    /\ cmodel = [c \in Calls |-> NoModel]
    /\ cb = [c \in Calls |-> 0]
    /\ cstart = [c \in Calls |-> <<>>]
    /\ ret = [call |-> 0, res |-> "none"]
    /\ env = 0
    /\ now = 0
    /\ locks = [t \in Threads |-> <<>>]
    /\ health = [pc |-> "idle", todo |-> {}, probing |-> 0]
    /\ shutdown = [pc |-> "idle", found |-> {}, todo |-> {}, name |-> NoModel,
                   rest |-> <<>>, deadline |-> 0, clock |-> 0, calls |-> 0,
                   left |-> NoSnapshot]
    /\ status = [c \in Calls |-> NoResponse]
    /\ resolve = r
    /\ prog = [t \in Threads |-> <<>>]
    /\ sched = [pc |-> "idle", action |-> unloadIdleA]
    /\ cache = [entries |-> <<>>, used |-> <<>>, clock |-> 0]

NoCalls == NoCallsWith(NoResolve)

\* A Manager that starts the first configured model when it is constructed.
NewManager_Eager(cfg0) ==
    /\ cfg = cfg0
    /\ maxLoaded = cfg0.MaxLoadedModels
    /\ backends = [x \in {"A"} |-> [backends |-> <<1>>, rrIdx |-> 0]]
    /\ heap = <<[model |-> "A", instanceIdx |-> 0, Port |-> PortRangeStart,
                 State |-> "Starting", LastUsed |-> 0, ActiveReqs |-> 0,
                 cancel |-> "set", Process |-> "running", monitor |-> "wait"]>>
    /\ nextPort = PortRangeStart + 1
    /\ NoCalls

\* NewManager(cfg0): no backend, the first port of the range, no queue entry;
\* no call has arrived.
NewManager(cfg0) ==
    /\ cfg = cfg0
    /\ maxLoaded = cfg0.MaxLoadedModels
    /\ backends = <<>>
    /\ heap = <<>>
    /\ nextPort = PortRangeStart
    /\ NoCalls

Init == NewManager(cfgS4)

\* ------------------------------------------------------------ EnsureModel
\* A call arrives; calls are numbered in the order they arrive.
Arrives(c, m) ==
    /\ pc[c] = "idle"
    /\ \A d \in Calls : d < c => pc[d] # "idle"
    /\ m \in DOMAIN cfg.Models
    /\ muFree
    /\ cmodel' = [cmodel EXCEPT ![c] = m]

\* No rotation: always the first Ready backend.
roundRobin_First(mb, hp) == getReadyBackends(mb, hp)[1]

\* The round-robin choice among the Ready backends of the group.  rrIdx is a
\* uint64 that starts at 0 and grows by one per acquire: it does not wrap
\* within any run of the lengths explored here.
roundRobin(mb, hp) ==
    LET readyBacks == getReadyBackends(mb, hp)
    IN readyBacks[(mb.rrIdx % Len(readyBacks)) + 1]

\* The first Ready backend in the group's order (its LastUsed is set too).
firstReady(mb, hp) == getReadyBackends(mb, hp)[1]

touch(hp, S, t) ==
    [i \in DOMAIN hp |-> IF i \in S THEN [hp[i] EXCEPT !.LastUsed = t] ELSE hp[i]]

\* EnsureModel, a Ready backend exists: round-robin among the Ready ones.
EnsureModelReady(c, m) ==
    /\ Arrives(c, m)
    /\ m \in DOMAIN backends
    /\ getReadyBackends(backends[m], heap) # <<>>
    /\ LET mb == backends[m]
           chosen == roundRobin(mb, heap)
       IN /\ heap' = touch(heap, {firstReady(mb, heap), chosen}, now)
          /\ backends' = [backends EXCEPT ![m].rrIdx = @ + 1]
          /\ pc' = [pc EXCEPT ![c] = "acquired"]
          /\ ret' = [call |-> c, res |-> "ok"]
          /\ cb' = [cb EXCEPT ![c] = chosen]
    /\ UNCHANGED <<locks, rest, cfg, maxLoaded, nextPort, queue, entryReady, drain, cstart,
                   now, env>>

\* GetBackend(m): the round-robin choice if a Ready backend exists, else
\* (nil, false).
GetBackend(c, m) ==
    /\ Arrives(c, m)
    /\ IF m \in DOMAIN backends /\ getReadyBackends(backends[m], heap) # <<>>
       THEN LET chosen == roundRobin(backends[m], heap)
            IN /\ heap' = touch(heap, {chosen}, now)
               /\ backends' = [backends EXCEPT ![m].rrIdx = @ + 1]
               /\ pc' = [pc EXCEPT ![c] = "got"]
               /\ cb' = [cb EXCEPT ![c] = chosen]
       ELSE /\ pc' = [pc EXCEPT ![c] = "done"]
            /\ UNCHANGED <<heap, backends, cb>>
    /\ UNCHANGED <<locks, rest, cfg, maxLoaded, nextPort, queue, entryReady, drain, cstart,
                   ret, now, env>>

\* EnsureModel, none Ready but one Starting: wait for the first Starting one.
EnsureModelStarting(c, m) ==
    /\ Arrives(c, m)
    /\ m \in DOMAIN backends
    /\ getReadyBackends(backends[m], heap) = <<>>
    /\ firstStarting(backends[m], heap) # 0
    /\ cb' = [cb EXCEPT ![c] = firstStarting(backends[m], heap)]
    /\ pc' = [pc EXCEPT ![c] = "waitForReady"]
    /\ UNCHANGED <<locks, rest, cfg, maxLoaded, backends, heap, nextPort, queue, entryReady,
                   drain, cstart, ret, now, env>>

mustStart(m) ==
    IF m \notin DOMAIN backends THEN TRUE
    ELSE /\ getReadyBackends(backends[m], heap) = <<>>
         /\ firstStarting(backends[m], heap) = 0

\* if modelCfg.ModelPath == "" && modelCfg.AutoDownload != nil
needsDownload(m) ==
    cfg.Models[m].ModelPath = "" /\ cfg.Models[m].AutoDownload

\* A variant that takes a port and creates the backend before it tries the
\* eviction.
EnsureModelBusy_Allocates(c, m) ==
    /\ Arrives(c, m)
    /\ mustStart(m)
    /\ Len(heap) < MaxBackends
    /\ \E o \in evictIfNeeded(backends, heap, maxLoaded) : o.err
    /\ heap' = Append(heap, [model |-> m, instanceIdx |-> 0, Port |-> nextPort,
                             State |-> "Starting", LastUsed |-> now,
                             ActiveReqs |-> 0, cancel |-> "nil",
                             Process |-> "nil", monitor |-> "none"])
    /\ nextPort' = nextPort + 1
    /\ pc' = [pc EXCEPT ![c] = "evictFailed"]
    /\ UNCHANGED <<locks, rest, cfg, maxLoaded, backends, queue, entryReady,
                   drain, cb, cstart, ret, now, env>>

\* EnsureModel, evictIfNeeded fails: unlock, go on to the queue.
EnsureModelBusy(c, m) ==
    /\ Arrives(c, m)
    /\ mustStart(m)
    /\ ~needsDownload(m)
    /\ \E o \in evictIfNeeded(backends, heap, maxLoaded) : o.err
    /\ pc' = [pc EXCEPT ![c] = "evictFailed"]
    /\ UNCHANGED <<locks, rest, cfg, maxLoaded, backends, heap, nextPort, queue, entryReady,
                   drain, cb, cstart, ret, now, env>>

instancesOf(m) ==
    IF cfg.Models[m].Instances < 1 THEN 1 ELSE cfg.Models[m].Instances

\* A backend whose port is counted from the start of the range for each
\* group anew.
newBackend_PortPerGroup(m, i, port) ==
    [model |-> m, instanceIdx |-> i, Port |-> PortRangeStart + i,
     State |-> "Starting", LastUsed |-> now, ActiveReqs |-> 0,
     cancel |-> "nil", Process |-> "nil", monitor |-> "none"]

newBackend(m, i, port) ==
    [model |-> m, instanceIdx |-> i, Port |-> port, State |-> "Starting",
     LastUsed |-> now, ActiveReqs |-> 0, cancel |-> "nil", Process |-> "nil",
     monitor |-> "none"]

\* evictIfNeeded succeeds: the victim, if any, is stopped; ports are
\* allocated, the group is created in Starting state and stored in the map
\* under the model's name, m.mu is unlocked.
createGroup(c, m) ==
    /\ Len(heap) + instancesOf(m) <= MaxBackends
    /\ \E o \in evictIfNeeded(backends, heap, maxLoaded) :
         /\ ~o.err
         /\ LET n == instancesOf(m)
                base == Len(heap)
                hp1 == stopModelHeap(backends, heap, o.victim)
                bk1 == stopModelMap(backends, o.victim)
                ids == [i \in 1..n |-> base + i]
            IN /\ heap' = hp1 \o [i \in 1..n |-> newBackend(m, i - 1, nextPort + i - 1)]
               /\ nextPort' = nextPort + n
               /\ backends' = [x \in (DOMAIN bk1) \cup {m} |->
                                 IF x = m THEN [backends |-> ids, rrIdx |-> 0]
                                 ELSE bk1[x]]
               /\ cstart' = [cstart EXCEPT ![c] = ids]
               /\ cb' = [cb EXCEPT ![c] = ids[1]]
    /\ pc' = [pc EXCEPT ![c] = "startBackend"]
    /\ UNCHANGED <<locks, rest, cfg, maxLoaded, queue, entryReady, drain, ret, now, env>>

\* EnsureModel, capacity available (after an eviction if one was needed).
EnsureModelCreate(c, m) ==
    /\ Arrives(c, m)
    /\ mustStart(m)
    /\ ~needsDownload(m)
    /\ createGroup(c, m)

\* EnsureModel, the model file is missing and can be downloaded: unlock and
\* call autoDownloadModel.
EnsureModelDownload(c, m) ==
    /\ Arrives(c, m)
    /\ mustStart(m)
    /\ needsDownload(m)
    /\ pc' = [pc EXCEPT ![c] = "download"]
    /\ UNCHANGED <<locks, rest, cfg, maxLoaded, backends, heap, nextPort, queue,
                   entryReady, drain, cb, cstart, ret, now, env>>

\* autoDownloadModel fails: EnsureModel returns the error.
DownloadFails(c) ==
    /\ pc[c] = "download"
    /\ Return(c, 0, "downloadFailed")
    /\ UNCHANGED <<locks, rest, cfg, maxLoaded, backends, heap, nextPort, queue,
                   entryReady, drain, cstart, now, env>>

\* autoDownloadModel finds or fetches the file: modelCfg.ModelPath = destPath.
DownloadDone(c) ==
    /\ pc[c] = "download"
    /\ cfg' = [cfg EXCEPT !.Models[cmodel[c]].ModelPath = "gguf"]
    /\ pc' = [pc EXCEPT ![c] = "downloaded"]
    /\ UNCHANGED <<locks, rest, maxLoaded, backends, heap, nextPort, queue,
                   entryReady, drain, cmodel, cb, cstart, ret, now, env>>

\* m.mu.Lock() after the download, then evictIfNeeded and the creation of the
\* group: the map is not looked at again.
Downloaded(c) ==
    /\ pc[c] = "downloaded"
    /\ muFree
    /\ \/ createGroup(c, cmodel[c]) /\ UNCHANGED cmodel
       \/ /\ \E o \in evictIfNeeded(backends, heap, maxLoaded) : o.err
          /\ pc' = [pc EXCEPT ![c] = "evictFailed"]
          /\ UNCHANGED <<locks, rest, cfg, maxLoaded, backends, heap, nextPort,
                         queue, entryReady, drain, cmodel, cb, cstart, ret,
                         now, env>>

\* startBackend: a fresh context and its cancel, the process is started and
\* a goroutine waits for its exit.
startBackend(hp, b) ==
    [hp EXCEPT ![b].cancel = "set", ![b].Process = "running",
               ![b].monitor = "wait"]

\* startBackend(b) for the next instance of the group the call created.
StartBackend(c) ==
    /\ pc[c] = "startBackend"
    /\ heap' = startBackend(heap, Head(cstart[c]))
    /\ cstart' = [cstart EXCEPT ![c] = Tail(@)]
    /\ pc' = [pc EXCEPT ![c] = IF Len(cstart[c]) = 1 THEN "waitForReady" ELSE @]
    /\ UNCHANGED <<locks, rest, cfg, maxLoaded, backends, nextPort, queue, entryReady,
                   drain, cmodel, cb, ret, now, env>>

\* ----------------------------------------------------------- waitForReady
\* case <-ctx.Done(): return nil, ctx.Err()
WaitCancelled(c) ==
    /\ pc[c] = "waitForReady"
    /\ Return(c, 0, "ctxDone")
    /\ UNCHANGED <<locks, rest, cfg, maxLoaded, backends, heap, nextPort, queue, entryReady,
                   drain, cstart, now, env>>

\* case <-timeout: return nil, "timeout waiting for ... to become ready"
WaitTimeout(c) ==
    /\ pc[c] = "waitForReady"
    /\ Return(c, 0, "startTimeout")
    /\ UNCHANGED <<locks, rest, cfg, maxLoaded, backends, heap, nextPort, queue, entryReady,
                   drain, cstart, now, env>>

\* case <-ticker.C: if b.State == StateFailed { return nil, "failed to start" }
WaitFailed(c) ==
    /\ pc[c] = "waitForReady"
    /\ heap[cb[c]].State = "Failed"
    /\ Return(c, 0, "backendFailed")
    /\ UNCHANGED <<locks, rest, cfg, maxLoaded, backends, heap, nextPort, queue, entryReady,
                   drain, cstart, now, env>>

\* case <-ticker.C: the state is not Failed and GET /health answers 200,
\* which takes a process listening on the backend's port.
WaitProbeOK(c) ==
    /\ pc[c] = "waitForReady"
    /\ heap[cb[c]].State # "Failed"
    /\ heap[cb[c]].Process = "running"
    /\ pc' = [pc EXCEPT ![c] = "publishReady"]
    /\ UNCHANGED <<locks, rest, cfg, maxLoaded, backends, heap, nextPort, queue, entryReady,
                   drain, cmodel, cb, cstart, ret, now, env>>

\* m.mu.Lock(); b.State = StateReady; m.mu.Unlock()
PublishReady(c) ==
    /\ pc[c] = "publishReady"
    /\ muFree
    /\ heap' = [heap EXCEPT ![cb[c]].State = "Ready"]
    /\ pc' = [pc EXCEPT ![c] = "drainQueue"]
    /\ UNCHANGED <<locks, rest, cfg, maxLoaded, backends, nextPort, queue, entryReady,
                   drain, cmodel, cb, cstart, ret, now, env>>

\* ------------------------------------------------------------- drainQueue
\* The first index >= p of the queue whose entry is for the model, or 0.
nextEntryOf(q, p, name) ==
    LET S == {j \in p..Len(q) : cmodel[q[j]] = name}
    IN IF S = {} THEN 0 ELSE CHOOSE j \in S : \A k \in S : j <= k

\* What drainQueue makes of one entry of its model: under m.mu, the first
\* Ready backend of the group if there is one, else 0.
drainChoice(bk, hp, name) ==
    IF name \in DOMAIN bk /\ getReadyBackends(bk[name], hp) # <<>>
    THEN getReadyBackends(bk[name], hp)[1]
    ELSE 0

\* drainQueue(b.Model.Name), called by waitForReady after it published
\* Ready.  Taking queueMu and passing over entries of other models is joined
\* to the step that handles the next entry of the model; with no such entry
\* left the step stores the remaining entries, unlocks and waitForReady
\* returns b.
DrainQueue(c) ==
    /\ pc[c] = "drainQueue"
    /\ drain.holder \in {0, c}
    /\ LET name == heap[cb[c]].model
           p == IF drain.holder = c THEN drain.pos ELSE 1
           rem == IF drain.holder = c THEN drain.remaining ELSE <<>>
           j == nextEntryOf(queue, p, name)
       IN IF j = 0
          THEN /\ queue' = rem \o SubSeq(queue, p, Len(queue))
               /\ drain' = [holder |-> 0, pos |-> 0, remaining |-> <<>>]
               /\ locks' = [locks EXCEPT ![c] = <<>>]
               /\ Return(c, cb[c], "ok")
               /\ UNCHANGED <<heap, entryReady>>
          ELSE LET skipped == rem \o SubSeq(queue, p, j - 1)
                   chosen == drainChoice(backends, heap, name)
               IN /\ muFree
                  /\ IF chosen # 0
                     THEN /\ heap' = touch(heap, {chosen}, now)
                          /\ entryReady' = [entryReady EXCEPT ![queue[j]] = chosen]
                          /\ drain' = [holder |-> c, pos |-> j + 1,
                                       remaining |-> skipped]
                     ELSE /\ drain' = [holder |-> c, pos |-> j + 1,
                                       remaining |-> Append(skipped, queue[j])]
                          /\ UNCHANGED <<heap, entryReady>>
                  /\ locks' = [locks EXCEPT ![c] = <<"queueMu">>]
                  /\ UNCHANGED <<queue, pc, ret, cb, cmodel>>
    /\ UNCHANGED <<rest, cfg, maxLoaded, backends, nextPort, cstart, now, env>>

\* The position drainQueue is at and the entries it has kept so far.
drainAt(c) ==
    [pos |-> IF drain.holder = c THEN drain.pos ELSE 1,
     remaining |-> IF drain.holder = c THEN drain.remaining ELSE <<>>]

\* drainQueue in two steps per entry.  First step: with queueMu held (taken
\* here if this is the first entry) the loop reaches the next entry of the
\* model and m.mu.Lock() returns.
DrainLockEntry(c) ==
    /\ pc[c] = "drainQueue"
    /\ drain.holder \in {0, c}
    /\ LET j == nextEntryOf(queue, drainAt(c).pos, heap[cb[c]].model)
       IN /\ j # 0
          /\ muFree
          /\ drain' = [holder |-> c, pos |-> j,
                       remaining |-> drainAt(c).remaining
                                       \o SubSeq(queue, drainAt(c).pos, j - 1)]
    /\ locks' = [locks EXCEPT ![c] = <<"queueMu", "mu">>]
    /\ pc' = [pc EXCEPT ![c] = "drainEntry"]
    /\ UNCHANGED <<rest, cfg, maxLoaded, backends, heap, nextPort, queue,
                   entryReady, cmodel, cb, cstart, ret, now, env>>

\* Second step: the entry is given the first Ready backend of the group, or
\* is kept; m.mu.Unlock().
DrainEntry(c) ==
    /\ pc[c] = "drainEntry"
    /\ LET e == queue[drain.pos]
           chosen == drainChoice(backends, heap, heap[cb[c]].model)
       IN IF chosen # 0
          THEN /\ heap' = touch(heap, {chosen}, now)
               /\ entryReady' = [entryReady EXCEPT ![e] = chosen]
               /\ drain' = [drain EXCEPT !.pos = @ + 1]
          ELSE /\ drain' = [drain EXCEPT !.pos = @ + 1,
                                         !.remaining = Append(@, e)]
               /\ UNCHANGED <<heap, entryReady>>
    /\ locks' = [locks EXCEPT ![c] = <<"queueMu">>]
    /\ pc' = [pc EXCEPT ![c] = "drainQueue"]
    /\ UNCHANGED <<rest, cfg, maxLoaded, backends, nextPort, queue, cmodel, cb,
                   cstart, ret, now, env>>

\* drainQueue finds no further entry of the model: m.queue = remaining, the
\* deferred queueMu.Unlock(), and waitForReady returns b.
DrainReturn(c) ==
    /\ pc[c] = "drainQueue"
    /\ drain.holder \in {0, c}
    /\ nextEntryOf(queue, drainAt(c).pos, heap[cb[c]].model) = 0
    /\ DrainQueue(c)

\* ---------------------------------------------------------------- enqueue
\* EnsureModel after a failed eviction: if m.cfg.Queue.Enabled { enqueue }
\* else return "eviction failed".
EvictFailed(c) ==
    /\ pc[c] = "evictFailed"
    /\ IF cfg.Queue.Enabled
       THEN pc' = [pc EXCEPT ![c] = "enqueue"] /\ UNCHANGED <<ret, cb, cmodel>>
       ELSE Return(c, 0, "evictionFailed")
    /\ UNCHANGED <<locks, rest, cfg, maxLoaded, backends, heap, nextPort, queue, entryReady,
                   drain, cstart, now, env>>

\* enqueue: queuing was switched off since EnsureModel looked.
EnqueueDisabled(c) ==
    /\ pc[c] = "enqueue"
    /\ ~cfg.Queue.Enabled
    /\ Return(c, 0, "queueDisabled")
    /\ UNCHANGED <<locks, rest, cfg, maxLoaded, backends, heap, nextPort, queue, entryReady,
                   drain, cstart, now, env>>

\* A test that lets one entry too many in.
queueFull_Late(q, size) == Len(q) > size

\* The test enqueue makes under queueMu.
queueFull(q, size) == Len(q) >= size

\* enqueue: the queue is full.
EnqueueFull(c) ==
    /\ pc[c] = "enqueue"
    /\ cfg.Queue.Enabled
    /\ drain.holder = 0
    /\ queueFull(queue, cfg.Queue.MaxSize)
    /\ Return(c, 0, "queueFull")
    /\ UNCHANGED <<locks, rest, cfg, maxLoaded, backends, heap, nextPort, queue, entryReady,
                   drain, cstart, now, env>>

\* enqueue: append the entry and wait.
Enqueue(c) ==
    /\ pc[c] = "enqueue"
    /\ cfg.Queue.Enabled
    /\ drain.holder = 0
    /\ ~queueFull(queue, cfg.Queue.MaxSize)
    /\ queue' = Append(queue, c)
    /\ pc' = [pc EXCEPT ![c] = "queued"]
    /\ UNCHANGED <<locks, rest, cfg, maxLoaded, backends, heap, nextPort, entryReady, drain,
                   cmodel, cb, cstart, ret, now, env>>

\* select: case b := <-entry.Ready
QueueDelivered(c) ==
    /\ pc[c] = "queued"
    /\ entryReady[c] # 0
    /\ entryReady' = [entryReady EXCEPT ![c] = 0]
    /\ Return(c, entryReady[c], "ok")
    /\ UNCHANGED <<locks, rest, cfg, maxLoaded, backends, heap, nextPort, queue, drain,
                   cstart, now, env>>

\* select: case <-timer.C.  The select takes any case that is ready, so
\* the timer can win over a backend already in entry.Ready.
QueueTimeout(c) ==
    /\ pc[c] = "queued"
    /\ pc' = [pc EXCEPT ![c] = "removeTimeout"]
    /\ UNCHANGED <<locks, rest, cfg, maxLoaded, backends, heap, nextPort, queue, entryReady,
                   drain, cmodel, cb, cstart, ret, now, env>>

\* select: case <-ctx.Done()
QueueCancelled(c) ==
    /\ pc[c] = "queued"
    /\ pc' = [pc EXCEPT ![c] = "removeCancel"]
    /\ UNCHANGED <<locks, rest, cfg, maxLoaded, backends, heap, nextPort, queue, entryReady,
                   drain, cmodel, cb, cstart, ret, now, env>>

\* A removal that removes nothing.
removeFromQueue_Keeps(q, e) == q

removeFromQueue(q, e) == SelectSeq(q, LAMBDA x : x # e)

\* removeFromQueue(entry) under queueMu, then the error is returned.
RemoveFromQueue(c) ==
    /\ pc[c] \in {"removeTimeout", "removeCancel"}
    /\ drain.holder = 0
    /\ queue' = removeFromQueue(queue, c)
    /\ Return(c, 0, IF pc[c] = "removeTimeout" THEN "queueTimeout" ELSE "ctxDone")
    /\ UNCHANGED <<locks, rest, cfg, maxLoaded, backends, heap, nextPort, entryReady, drain,
                   cstart, now, env>>

\* GetQueueLength: len(m.queue) under queueMu, which drainQueue holds until
\* it has stored the remaining entries.
GetQueueLength == Len(queue)

\* ------------------------------------------------------------ the handler
\* backend.IncrActiveReqs() after a successful EnsureModel.
IncrActiveReqs(c) ==
    /\ pc[c] = "acquired"
    /\ heap' = [heap EXCEPT ![cb[c]].ActiveReqs = @ + 1]
    /\ pc' = [pc EXCEPT ![c] = "proxy"]
    /\ UNCHANGED <<locks, rest, cfg, maxLoaded, backends, nextPort, queue, entryReady,
                   drain, cmodel, cb, cstart, ret, now, env>>

\* The ways proxyToModel returns after the increment: the response was
\* copied, http.NewRequestWithContext failed (500), client.Do failed (502),
\* the stream or the client's connection broke.
ProxyExits == {"ok", "newRequestFailed", "dialFailed", "streamAborted",
               "deadlineHeaders", "deadlineBody"}

\* A decrement written at the end of the successful path only.
DecrActiveReqs_OnSuccess(c) ==
    /\ pc[c] = "proxy"
    /\ \E how \in ProxyExits :
         heap' = IF how = "ok" THEN [heap EXCEPT ![cb[c]].ActiveReqs = @ - 1]
                 ELSE heap
    /\ pc' = [pc EXCEPT ![c] = "done"]
    /\ cb' = [cb EXCEPT ![c] = 0]
    /\ cmodel' = [cmodel EXCEPT ![c] = NoModel]
    /\ UNCHANGED <<locks, rest, cfg, maxLoaded, backends, nextPort, queue, entryReady,
                   drain, cstart, ret, now, env>>

\* defer backend.DecrActiveReqs(): the proxied request is over, whichever
\* way proxyToModel returns.
DecrActiveReqs(c) ==
    /\ pc[c] = "proxy"
    /\ \E how \in ProxyExits :
         heap' = [heap EXCEPT ![cb[c]].ActiveReqs = @ - 1]
    /\ pc' = [pc EXCEPT ![c] = "done"]
    /\ cb' = [cb EXCEPT ![c] = 0]
    /\ cmodel' = [cmodel EXCEPT ![c] = NoModel]
    /\ UNCHANGED <<locks, rest, cfg, maxLoaded, backends, nextPort, queue, entryReady,
                   drain, cstart, ret, now, env>>

\* Whether proxyToModel can return that way: the deadline of reqCtx exists
\* only if timeoutSec > 0 && !isStream; the copy loop that breaks off is
\* that of a stream.
canExit(how, timeoutSec, isStream) ==
    CASE how \in {"deadlineHeaders", "deadlineBody"} -> timeoutSec > 0 /\ ~isStream
      [] how = "streamAborted" -> isStream
      [] OTHER -> TRUE

\* What proxyToModel has written to the client when it returns.  The backend
\* answers 200.  An error of client.Do, the deadline of reqCtx included, is
\* answered 502; once the headers are in, the backend's status is written
\* with as much of the body as was read (respBody, _ := io.ReadAll).
response(how, isStream) ==
    CASE how = "ok" ->
           [code |-> StatusOK, body |-> "complete", exit |-> how,
            stream |-> isStream]
      [] how = "newRequestFailed" ->
           [code |-> StatusInternalServerError, body |-> "error", exit |-> how,
            stream |-> isStream]
      [] how \in {"dialFailed", "deadlineHeaders"} ->
           [code |-> StatusBadGateway, body |-> "error", exit |-> how,
            stream |-> isStream]
      [] how \in {"deadlineBody", "streamAborted"} ->
           [code |-> StatusOK, body |-> "truncated", exit |-> how,
            stream |-> isStream]

\* A return that also marks the backend Failed when the dial failed.
proxyReturn_MarksFailed(hp, b, how) ==
    [hp EXCEPT ![b].ActiveReqs = @ - 1,
               ![b].State = IF how = "dialFailed" THEN "Failed" ELSE @]

\* What a return of proxyToModel after the increment does to the Manager:
\* the deferred backend.DecrActiveReqs().
proxyReturn(hp, b, how) == [hp EXCEPT ![b].ActiveReqs = @ - 1]

\* proxyToModel from the increment on, for a request that asks for a stream
\* or not: it returns one of the ways it can, having written a response.
ProxyReturns(c) ==
    /\ pc[c] = "proxy"
    /\ \E how \in ProxyExits, isStream \in BOOLEAN :
         /\ canExit(how, cfg.Models[cmodel[c]].TimeoutSec, isStream)
         /\ status' = [status EXCEPT ![c] = response(how, isStream)]
         /\ heap' = proxyReturn(heap, cb[c], how)
    /\ pc' = [pc EXCEPT ![c] = "done"]
    /\ UNCHANGED <<prog, sched, cache, locks, health, shutdown, resolve, cfg, maxLoaded, backends,
                   nextPort, queue, entryReady, drain, cmodel, cb, cstart, ret,
                   now, env>>

\* ------------------------------------------- the process and its monitor
\* The child process exits on its own: "exited" with an error status,
\* "exited0" with status 0.  cmd.Wait() returns once it has.
processExit(b, how) ==
    /\ b \in DOMAIN heap
    /\ heap[b].Process = "running"
    /\ heap' = [heap EXCEPT ![b].Process = how]
    /\ UNCHANGED <<locks, rest, cfg, maxLoaded, backends, nextPort, queue, entryReady,
                   drain, pc, cmodel, cb, cstart, ret, now>>

\* One of the few outside events of a run: the process exits with an error.
ProcessExits(b) ==
    /\ env < MaxEnv
    /\ env' = env + 1
    /\ processExit(b, "exited")

\* cmd.Wait() returned.  err != nil && ctx.Err() == nil: Failed, and the
\* goroutine sleeps 2s.  Status 0, or cancelled: Stopped, and the goroutine
\* ends.
MonitorExit(b) ==
    /\ b \in DOMAIN heap
    /\ heap[b].monitor = "wait"
    /\ muFree
    /\ heap[b].Process \in {"exited", "exited0", "killed"}
    /\ heap' = IF heap[b].Process # "exited0" /\ heap[b].cancel # "called"
               THEN [heap EXCEPT ![b].State = "Failed", ![b].Process = "nil",
                                 ![b].monitor = "sleep"]
               ELSE [heap EXCEPT ![b].State = "Stopped", ![b].monitor = "none"]
    /\ UNCHANGED <<locks, rest, cfg, maxLoaded, backends, nextPort, queue, entryReady,
                   drain, pc, cmodel, cb, cstart, ret, now, env>>

\* After the sleep: if b.State == StateFailed { b.State = StateStarting }
MonitorWake(b) ==
    /\ b \in DOMAIN heap
    /\ heap[b].monitor = "sleep"
    /\ muFree
    /\ heap' = IF heap[b].State = "Failed"
               THEN [heap EXCEPT ![b].State = "Starting", ![b].monitor = "restart"]
               ELSE [heap EXCEPT ![b].monitor = "none"]
    /\ UNCHANGED <<locks, rest, cfg, maxLoaded, backends, nextPort, queue, entryReady,
                   drain, pc, cmodel, cb, cstart, ret, now, env>>

\* m.startBackend(b) of the auto-restart.
MonitorRestart(b) ==
    /\ b \in DOMAIN heap
    /\ heap[b].monitor = "restart"
    /\ heap' = startBackend(heap, b)
    /\ UNCHANGED <<locks, rest, cfg, maxLoaded, backends, nextPort, queue, entryReady,
                   drain, pc, cmodel, cb, cstart, ret, now, env>>

\* ------------------------------------------------- other Manager operations
\* StopBackendByName / UnloadModel: stopModel under m.mu.
stopModel(name) ==
    /\ name \in DOMAIN backends
    /\ muFree
    /\ heap' = stopModelHeap(backends, heap, name)
    /\ backends' = stopModelMap(backends, name)
    /\ UNCHANGED <<locks, rest, cfg, maxLoaded, nextPort, queue, entryReady, drain, pc,
                   cmodel, cb, cstart, ret, now>>

\* One of the few outside events of a run: an unload.
StopBackendByName(name) ==
    /\ env < MaxEnv
    /\ env' = env + 1
    /\ stopModel(name)

\* One tick of HealthCheck: every Ready backend of the map is probed with
\* m.mu held; F are the backends whose probe fails.  A probe of a backend
\* without a running process cannot succeed.
HealthCheck(F) ==
    /\ env < MaxEnv
    /\ env' = env + 1
    /\ muFree
    /\ F # {}
    /\ F \subseteq {b \in InMap(backends) : heap[b].State = "Ready"}
    /\ \A b \in InMap(backends) :
           (heap[b].State = "Ready" /\ heap[b].Process # "running") => b \in F
    /\ heap' = [i \in DOMAIN heap |->
                  IF i \in F THEN [heap[i] EXCEPT !.State = "Failed"] ELSE heap[i]]
    /\ UNCHANGED <<locks, rest, cfg, maxLoaded, backends, nextPort, queue, entryReady,
                   drain, pc, cmodel, cb, cstart, ret, now>>

\* A reload that empties the queue it was configured anew.
UpdateConfig_ResetsQueue(new) ==
    /\ env < MaxEnv
    /\ env' = env + 1
    /\ muFree
    /\ new # cfg
    /\ cfg' = new
    /\ maxLoaded' = new.MaxLoadedModels
    /\ queue' = <<>>
    /\ UNCHANGED <<locks, rest, backends, heap, nextPort, entryReady, drain, pc,
                   cmodel, cb, cstart, ret, now>>

\* UpdateConfig: replace the config and the capacity bound.
UpdateConfig(new) ==
    /\ env < MaxEnv
    /\ env' = env + 1
    /\ muFree
    /\ new # cfg
    /\ cfg' = new
    /\ maxLoaded' = new.MaxLoadedModels
    /\ UNCHANGED <<locks, rest, backends, heap, nextPort, queue, entryReady, drain, pc,
                   cmodel, cb, cstart, ret, now>>

\* The clock advances.  Only the order of the LastUsed stamps matters, so the
\* clock moves on only from an instant that some loaded backend carries.
Tick ==
    /\ now < MaxClock
    /\ \E b \in InMap(backends) : heap[b].LastUsed = now
    /\ now' = now + 1
    /\ UNCHANGED <<locks, rest, cfg, maxLoaded, backends, heap, nextPort, queue, entryReady,
                   drain, pc, cmodel, cb, cstart, ret, env>>

\* ------------------------------------------------------ scheduled actions
\* allIdle of runScheduledAction: no backend of the group has a request in
\* flight or was used less than AfterMin ago.
allIdle(mb, hp, afterMin, t) ==
    \A b \in Range(mb.backends) :
        ~(hp[b].ActiveReqs > 0 \/ t - hp[b].LastUsed < afterMin)

\* A tick of runScheduledAction for unload_idle that finds the model loaded
\* and idle: m.mu.Unlock(), and UnloadModel is called next.  (Any other tick
\* unlocks and changes nothing.)
ScheduledTick ==
    /\ sched.pc = "idle"
    /\ sched.action.Type = "unload_idle"
    /\ muFree
    /\ sched.action.Model \in DOMAIN backends
    /\ allIdle(backends[sched.action.Model], heap, sched.action.AfterMin, now)
    /\ sched' = [sched EXCEPT !.pc = "unload"]
    /\ UNCHANGED <<cfg, maxLoaded, backends, heap, nextPort, queue, entryReady,
                   drain, pc, cmodel, cb, cstart, ret, env, now, locks, health,
                   shutdown, status, resolve, prog, cache>>

\* m.UnloadModel(action.Model): StopBackendByName takes m.mu and calls
\* stopModel.
ScheduledUnload ==
    /\ sched.pc = "unload"
    /\ muFree
    /\ heap' = stopModelHeap(backends, heap, sched.action.Model)
    /\ backends' = stopModelMap(backends, sched.action.Model)
    /\ sched' = [sched EXCEPT !.pc = "idle"]
    /\ UNCHANGED <<cfg, maxLoaded, nextPort, queue, entryReady, drain, pc,
                   cmodel, cb, cstart, ret, env, now, locks, health, shutdown,
                   status, resolve, prog, cache>>

\* --------------------------------------------------------- response cache
Keys == {"k1", "k2", "k3"}

\* A map without one of its keys, and with one key set.
without(f, k) == [x \in DOMAIN f \ {k} |-> f[x]]
with(f, k, v) == [x \in DOMAIN f \cup {k} |-> IF x = k THEN v ELSE f[x]]

\* Set's search: the keys whose createdAt none is Before.  (Every entry has
\* its own createdAt, so there is one.)
oldest(entries) ==
    {k \in DOMAIN entries :
        \A j \in DOMAIN entries : ~(entries[j] < entries[k])}

\* ResponseCache.Get: found if the key is there and not older than the ttl.
\* Nothing is written to the entry; used records the read.
Get(key) ==
    /\ cache.clock < MaxCacheOps
    /\ LET found == /\ key \in DOMAIN cache.entries
                    /\ ~(cache.clock - cache.entries[key] > TTL)
       IN cache' = [cache EXCEPT
                       !.clock = @ + 1,
                       !.used = IF found THEN with(@, key, cache.clock) ELSE @]
    /\ UNCHANGED <<cfg, maxLoaded, backends, heap, nextPort, queue, entryReady,
                   drain, pc, cmodel, cb, cstart, ret, env, now, locks, health,
                   shutdown, status, resolve, prog, sched>>

\* ResponseCache.Set: at capacity the entry created first is deleted; then
\* the key is stored with createdAt = time.Now().
Set(key) ==
    /\ cache.clock < MaxCacheOps
    /\ LET full == Cardinality(DOMAIN cache.entries) >= MaxEntries
           oldestKey == IF full /\ cache.entries # <<>>
                        THEN CHOOSE k \in oldest(cache.entries) : TRUE
                        ELSE ""
           kept == without(cache.entries, oldestKey)
       IN cache' = [cache EXCEPT
                       !.clock = @ + 1,
                       !.entries = with(kept, key, cache.clock),
                       !.used = with(without(@, oldestKey), key, cache.clock)]
    /\ UNCHANGED <<cfg, maxLoaded, backends, heap, nextPort, queue, entryReady,
                   drain, pc, cmodel, cb, cstart, ret, env, now, locks, health,
                   shutdown, status, resolve, prog, sched>>

\* cleanup, every 60 s: the entries older than the ttl are deleted.
cleanup ==
    /\ cache.clock < MaxCacheOps
    /\ LET expired == {k \in DOMAIN cache.entries :
                          cache.clock - cache.entries[k] > TTL}
       IN cache' = [cache EXCEPT
                       !.clock = @ + 1,
                       !.entries = [k \in DOMAIN @ \ expired |-> @[k]],
                       !.used = [k \in DOMAIN @ \ expired |-> @[k]]]
    /\ UNCHANGED <<cfg, maxLoaded, backends, heap, nextPort, queue, entryReady,
                   drain, pc, cmodel, cb, cstart, ret, env, now, locks, health,
                   shutdown, status, resolve, prog, sched>>

CacheNext ==
    \/ \E key \in Keys : Get(key)
    \/ \E key \in Keys : Set(key)
    \/ cleanup

CacheSpec == Init /\ [][CacheNext]_vars

\* ------------------------------------------------------- model resolution
\* Strings are sequences of characters; "A" is the upper case of "a".
Chars == {"a", "A", "b"}

StringsUpTo(n) == UNION {[1..k -> Chars] : k \in 0..n}

\* strings.ToLower
ToLower(str) == [i \in DOMAIN str |-> IF str[i] = "A" THEN "a" ELSE str[i]]

\* strings.Contains
Contains(str, substr) ==
    \E i \in 0..(Len(str) - Len(substr)) :
        SubSeq(str, i + 1, i + Len(substr)) = substr

\* for _, m := range models { if ... { return m.Name } }: the first of the
\* indices S at which the test succeeds, or none.
firstIndex(S) ==
    IF S = {} THEN 0 ELSE CHOOSE i \in S : \A j \in S : i <= j

\* The indices of the models the request names, lists or is part of.
exactAt(models, requested) ==
    {i \in DOMAIN models : models[i].Name = requested}
aliasAt(models, requested) ==
    {i \in DOMAIN models : requested \in Range(models[i].Aliases)}
partialAt(models, requested) ==
    {i \in DOMAIN models :
        Contains(ToLower(models[i].Name), ToLower(requested))}

nameAt(models, i) == IF i = 0 THEN <<>> ELSE models[i].Name

\* Config.ResolveAlias: the first model, in the order of the list, whose
\* name or one of whose aliases is the requested string; "" if none.
ResolveAlias(models, requested) ==
    nameAt(models, firstIndex(exactAt(models, requested)
                                \cup aliasAt(models, requested)))

\* resolveModelName: exact name, then alias, then the first model whose
\* lowered name contains the lowered request; "" if none.
resolveModelName(requested, models) ==
    LET exact == firstIndex(exactAt(models, requested))
        alias == firstIndex(aliasAt(models, requested))
        partial == firstIndex(partialAt(models, requested))
    IN IF exact # 0 THEN models[exact].Name
       ELSE IF alias # 0 THEN models[alias].Name
       ELSE nameAt(models, partial)

\* proxyToModel: cfg.ResolveAlias(req.Model), and resolveModelName if that
\* gave ""; 404 if both did.
ResolveModel ==
    /\ ~resolve.done
    /\ LET byAlias == ResolveAlias(resolve.Models, resolve.requested)
           modelName == IF byAlias # <<>> THEN byAlias
                        ELSE resolveModelName(resolve.requested, resolve.Models)
       IN resolve' = [resolve EXCEPT !.modelName = modelName,
                                     !.code = IF modelName = <<>>
                                              THEN StatusNotFound ELSE 0,
                                     !.done = TRUE]
    /\ UNCHANGED <<prog, sched, cache, locks, health, shutdown, status, cfg, maxLoaded, backends,
                   heap, nextPort, queue, entryReady, drain, pc, cmodel, cb,
                   cstart, ret, env, now>>

\* ------------------------------------------------------------ HealthCheck
\* The tick of HealthCheck in steps.  case <-ticker.C: m.mu.Lock(), and the
\* range over the map and its groups begins; nothing else changes the map
\* while the lock is held.
HealthLock ==
    /\ health.pc = "idle"
    /\ muFree
    /\ locks' = [locks EXCEPT ![healthChecker] = <<"mu">>]
    /\ health' = [pc |-> "range", todo |-> InMap(backends), probing |-> 0]
    /\ UNCHANGED <<prog, sched, cache, shutdown, status, resolve, cfg, maxLoaded, backends, heap,
                   nextPort, queue, entryReady, drain, pc, cmodel, cb, cstart,
                   ret, env, now>>

\* A range that probes every backend, whatever its state.
HealthProbe_All ==
    /\ health.pc = "range"
    /\ \E b \in health.todo :
         health' = [health EXCEPT !.pc = "probing", !.probing = b]
    /\ UNCHANGED <<prog, sched, cache, locks, shutdown, status, resolve, cfg, maxLoaded, backends,
                   heap, nextPort, queue, entryReady, drain, pc, cmodel, cb,
                   cstart, ret, env, now>>

\* The next backend of the range: if b.State != StateReady { continue };
\* else http.Get(healthURL) is sent.
HealthProbe ==
    /\ health.pc = "range"
    /\ \E b \in health.todo :
         health' = IF heap[b].State # "Ready"
                   THEN [health EXCEPT !.todo = @ \ {b}]
                   ELSE [health EXCEPT !.pc = "probing", !.probing = b]
    /\ UNCHANGED <<prog, sched, cache, locks, shutdown, status, resolve, cfg, maxLoaded, backends,
                   heap, nextPort, queue, entryReady, drain, pc, cmodel, cb,
                   cstart, ret, env, now>>

\* http.Get returned: on an error or a status other than 200 the backend is
\* set Failed.  Only a running process answers 200.
HealthProbed ==
    /\ health.pc = "probing"
    /\ \E ok \in {TRUE, FALSE} :
         /\ ok => heap[health.probing].Process = "running"
         /\ heap' = IF ok THEN heap
                    ELSE [heap EXCEPT ![health.probing].State = "Failed"]
    /\ health' = [health EXCEPT !.pc = "range", !.todo = @ \ {health.probing},
                                !.probing = 0]
    /\ UNCHANGED <<prog, sched, cache, locks, shutdown, status, resolve, cfg, maxLoaded, backends,
                   nextPort, queue, entryReady, drain, pc, cmodel, cb, cstart,
                   ret, env, now>>

\* The range is over: m.mu.Unlock().
HealthUnlock ==
    /\ health.pc = "range"
    /\ health.todo = {}
    /\ locks' = [locks EXCEPT ![healthChecker] = <<>>]
    /\ health' = [health EXCEPT !.pc = "idle"]
    /\ UNCHANGED <<prog, sched, cache, shutdown, status, resolve, cfg, maxLoaded, backends, heap,
                   nextPort, queue, entryReady, drain, pc, cmodel, cb, cstart,
                   ret, env, now>>

\* --------------------------------------------------------------- Shutdown
\* Shutdown is called: m.mu.Lock(), and the range over m.backends begins.
\* clock counts the seconds since the call; found are the backends of the
\* map at that moment, todo the keys the range has still to produce.
ShutdownLock ==
    /\ shutdown.pc = "idle"
    /\ shutdown.calls < MaxShutdowns
    /\ muFree
    /\ locks' = [locks EXCEPT ![shutdownCaller] = <<"mu">>]
    /\ shutdown' = [shutdown EXCEPT !.pc = "range", !.found = InMap(backends),
                                    !.todo = DOMAIN backends, !.clock = 0]
    /\ UNCHANGED <<prog, sched, cache, health, status, resolve, cfg, maxLoaded, backends, heap,
                   nextPort, queue, entryReady, drain, pc, cmodel, cb, cstart,
                   ret, env, now>>

\* for name, mb := range m.backends: the next key.  A key deleted before the
\* range reached it is not produced; one created during the range is
\* produced or skipped.  Every key the range has produced was deleted by
\* stopModel at the end of its iteration.
ShutdownRange ==
    /\ shutdown.pc = "range"
    /\ \E name \in DOMAIN backends :
         shutdown' = [shutdown EXCEPT !.pc = "drain", !.name = name,
                                      !.todo = @ \ {name},
                                      !.rest = backends[name].backends,
                                      !.deadline = shutdown.clock + DrainCeiling]
    /\ UNCHANGED <<prog, sched, cache, locks, health, status, resolve, cfg, maxLoaded, backends,
                   heap, nextPort, queue, entryReady, drain, pc, cmodel, cb,
                   cstart, ret, env, now>>

\* for b.GetActiveReqs() > 0 && time.Now().Before(deadline): unlock and
\* sleep; else go on to the next backend of the group.
ShutdownDrain ==
    /\ shutdown.pc = "drain"
    /\ shutdown.rest # <<>>
    /\ IF /\ heap[Head(shutdown.rest)].ActiveReqs > 0
          /\ shutdown.clock < shutdown.deadline
       THEN /\ shutdown' = [shutdown EXCEPT !.pc = "sleep"]
            /\ locks' = [locks EXCEPT ![shutdownCaller] = <<>>]
       ELSE /\ shutdown' = [shutdown EXCEPT !.rest = Tail(@)]
            /\ UNCHANGED locks
    /\ UNCHANGED <<prog, sched, cache, health, status, resolve, cfg, maxLoaded, backends, heap,
                   nextPort, queue, entryReady, drain, pc, cmodel, cb, cstart,
                   ret, env, now>>

\* time.Sleep(1 * time.Second) is over; m.mu.Lock().
ShutdownWake ==
    /\ shutdown.pc = "sleep"
    /\ muFree
    /\ locks' = [locks EXCEPT ![shutdownCaller] = <<"mu">>]
    /\ shutdown' = [shutdown EXCEPT !.pc = "drain", !.clock = @ + SleepSeconds]
    /\ UNCHANGED <<prog, sched, cache, health, status, resolve, cfg, maxLoaded, backends, heap,
                   nextPort, queue, entryReady, drain, pc, cmodel, cb, cstart,
                   ret, env, now>>

\* m.stopModel(name) once the backends of the group were waited for.
ShutdownStop ==
    /\ shutdown.pc = "drain"
    /\ shutdown.rest = <<>>
    /\ heap' = stopModelHeap(backends, heap, shutdown.name)
    /\ backends' = stopModelMap(backends, shutdown.name)
    /\ shutdown' = [shutdown EXCEPT !.pc = "range"]
    /\ UNCHANGED <<prog, sched, cache, locks, health, status, resolve, cfg, maxLoaded, nextPort,
                   queue, entryReady, drain, pc, cmodel, cb, cstart, ret, env,
                   now>>

\* The map, the states and the queue as they are now, the calls that have
\* not arrived yet, and whether no call is inside EnsureModel.
snapshot ==
    [backends |-> backends,
     State |-> [b \in DOMAIN heap |-> heap[b].State],
     queue |-> queue,
     idle |-> {c \in Calls : pc[c] = "idle"},
     quiet |-> \A c \in Calls : pc[c] \in {"idle", "acquired", "proxy", "done"}]

\* The range is over: every key it had to produce was produced or deleted;
\* the deferred m.mu.Unlock() runs and Shutdown returns.  left records what
\* the call leaves behind.
ShutdownReturn ==
    /\ shutdown.pc = "range"
    /\ shutdown.todo \cap DOMAIN backends = {}
    /\ locks' = [locks EXCEPT ![shutdownCaller] = <<>>]
    /\ shutdown' = [shutdown EXCEPT !.pc = "idle", !.calls = @ + 1,
                                    !.left = snapshot]
    /\ UNCHANGED <<prog, sched, cache, health, status, resolve, cfg, maxLoaded, backends, heap,
                   nextPort, queue, entryReady, drain, pc, cmodel, cb, cstart,
                   ret, env, now>>

Shutdown ==
    \/ ShutdownLock
    \/ ShutdownRange
    \/ ShutdownDrain
    \/ ShutdownWake
    \/ ShutdownStop
    \/ ShutdownReturn

\* ------------------------------------------------------------------- Next
\* A request arrives at proxyToModel, which calls EnsureModel.
Request(c) ==
    \E m \in DOMAIN cfg.Models :
        \/ EnsureModelReady(c, m)
        \/ EnsureModelStarting(c, m)
        \/ EnsureModelBusy(c, m)
        \/ EnsureModelCreate(c, m)
        \/ EnsureModelDownload(c, m)

\* The steps of a call that wait for nothing but the scheduler or the locks.
Proceed(c) ==
    \/ StartBackend(c)
    \/ WaitFailed(c)
    \/ WaitProbeOK(c)
    \/ PublishReady(c)
    \/ DrainQueue(c)
    \/ EvictFailed(c)
    \/ EnqueueDisabled(c)
    \/ EnqueueFull(c)
    \/ Enqueue(c)
    \/ QueueDelivered(c)
    \/ RemoveFromQueue(c)
    \/ IncrActiveReqs(c)
    \/ DecrActiveReqs(c)

\* Waits without a timer and without the caller's context.
Expire_Never(c) ==
    /\ pc[c] \in {"waitForReady", "queued"}
    /\ FALSE
    /\ UNCHANGED vars

\* The timers and the caller's context.
Expire(c) ==
    \/ WaitCancelled(c)
    \/ WaitTimeout(c)
    \/ QueueTimeout(c)
    \/ QueueCancelled(c)

Monitor(b) ==
    \/ MonitorExit(b)
    \/ MonitorWake(b)
    \/ MonitorRestart(b)

\* What happens to the Manager from outside the request path.
Outside ==
    \/ \E b \in 1..MaxBackends : ProcessExits(b)
    \/ \E name \in DOMAIN cfg.Models : StopBackendByName(name)
    \/ \E F \in SUBSET (1..MaxBackends) : HealthCheck(F)
    \/ \E new \in Configs : UpdateConfig(new)

Next ==
    \/ \E c \in 1..MainCalls : Request(c)
    \/ \E c \in Calls : Proceed(c)
    \/ \E c \in Calls : Expire(c)
    \/ \E b \in 1..MaxBackends : Monitor(b)
    \/ Outside

Spec == Init /\ [][Next]_vars

\* The request path alone, the queue on and never full: no unload, no crash,
\* no failing probe, no reload.
QuietStep(c) ==
    \/ StartBackend(c)
    \/ WaitProbeOK(c)
    \/ PublishReady(c)
    \/ DrainQueue(c)
    \/ EvictFailed(c)
    \/ Enqueue(c)
    \/ QueueDelivered(c)
    \/ RemoveFromQueue(c)
    \/ IncrActiveReqs(c)
    \/ DecrActiveReqs(c)

QuietNext ==
    \/ \E c \in 1..MainCalls : Request(c)
    \/ \E c \in Calls : QuietStep(c)
    \/ \E c \in Calls : Expire(c)
    \/ \E b \in 1..MaxBackends : MonitorExit(b)

\* Every goroutine that can take a step eventually takes one, and the timers
\* fire; further requests need not arrive.
QuietFairSpec ==
    /\ Init /\ [][QuietNext]_vars
    /\ WF_vars(\E c \in Calls : QuietStep(c))
    /\ WF_vars(\E c \in Calls : Expire(c))
    /\ WF_vars(\E b \in 1..MaxBackends : MonitorExit(b))

\* The request path up to the acquisition, with up to MaxCalls calls whose
\* waits do not expire, and the health prober.
QueueStep(c) ==
    \/ StartBackend(c)
    \/ WaitProbeOK(c)
    \/ PublishReady(c)
    \/ DrainQueue(c)
    \/ EvictFailed(c)
    \/ EnqueueFull(c)
    \/ Enqueue(c)
    \/ QueueDelivered(c)

QueueNext ==
    \/ \E c \in Calls : Request(c)
    \/ \E c \in Calls : QueueStep(c)
    \/ \E F \in SUBSET (1..MaxBackends) : HealthCheck(F)

QueueSpec == Init /\ [][QueueNext]_vars

\* Loading, using and evicting three models under a capacity of two, one
\* EnsureModel at a time, while the clock advances: no failure, no queue.
EvictStep(c) ==
    \/ StartBackend(c)
    \/ WaitProbeOK(c)
    \/ PublishReady(c)
    \/ DrainQueue(c)
    \/ EvictFailed(c)
    \/ IncrActiveReqs(c)
    \/ DecrActiveReqs(c)

\* A request that arrives while no other call is inside EnsureModel: the
\* earlier ones are being proxied or are over.
SerialRequest(c) ==
    /\ \A d \in Calls : pc[d] \in {"idle", "proxy", "done"}
    /\ Request(c)

EvictNext ==
    \/ \E c \in Calls : SerialRequest(c)
    \/ \E c \in Calls : EvictStep(c)
    \/ Tick

InitEvict == NewManager(cfgEvict)

SpecEvict == InitEvict /\ [][EvictNext]_vars

\* The states a backend of the map is found in when an acquire looks.
AcquireStates == {"Ready", "Starting", "Failed"}

\* A backend whose process was started.
startedBackend(m, i, port, st) ==
    [newBackend(m, i, port) EXCEPT !.State = st, !.cancel = "set",
                                   !.Process = "running", !.monitor = "wait"]

\* A Manager that loaded A (one instance) and B (three): every backend is
\* Ready, Starting or Failed, and each group served some acquires already.
InitRR ==
    /\ NoCalls
    /\ cfg = cfgRR
    /\ maxLoaded = cfgRR.MaxLoadedModels
    /\ \E sA \in AcquireStates, sB \in [1..3 -> AcquireStates],
          rA \in {0}, rB \in 0..MaxRR :
         /\ heap = <<startedBackend("A", 0, PortRangeStart, sA)>>
                    \o [i \in 1..3 |->
                          startedBackend("B", i - 1, PortRangeStart + i, sB[i])]
         /\ backends = [A |-> [backends |-> <<1>>, rrIdx |-> rA],
                        B |-> [backends |-> <<2, 3, 4>>, rrIdx |-> rB]]
    /\ nextPort = PortRangeStart + 4

\* Acquires only: the fast path of EnsureModel and GetBackend.
RRNext ==
    \/ \E c \in Calls, m \in {"A", "B"} : EnsureModelReady(c, m)
    \/ \E c \in Calls, m \in {"A", "B"} : GetBackend(c, m)

SpecRR == InitRR /\ [][RRNext]_vars

\* The process of a backend exits at any time and any number of times, with
\* either kind of status.
Crash(b) ==
    /\ \E how \in {"exited", "exited0"} : processExit(b, how)
    /\ UNCHANGED env

\* StopBackendByName / UnloadModel at any time.
Unload ==
    /\ \E name \in DOMAIN cfg.Models : stopModel(name)
    /\ UNCHANGED env

\* Loading a model up to the return of EnsureModel.
SuperviseStep(c) ==
    \/ StartBackend(c)
    \/ WaitFailed(c)
    \/ WaitProbeOK(c)
    \/ PublishReady(c)
    \/ DrainQueue(c)

\* The supervision of the processes: a few calls load the model, the
\* processes crash, the monitors restart them, the model is unloaded.
SuperviseNext ==
    \/ \E c \in 1..SuperviseCalls : Request(c)
    \/ \E c \in Calls : SuperviseStep(c)
    \/ \E b \in 1..MaxBackends : Crash(b)
    \/ \E b \in 1..MaxBackends : Monitor(b)
    \/ Unload

InitOne == NewManager(cfgOne)

\* The monitors and the callers inside EnsureModel keep running; crashes and
\* unloads may or may not happen.
SuperviseFairSpec ==
    /\ InitOne /\ [][SuperviseNext]_vars
    /\ WF_vars(\E c \in Calls : SuperviseStep(c))
    /\ WF_vars(\E b \in 1..MaxBackends : Monitor(b))

\* Loading and using models whose processes come up and keep running: every
\* probe succeeds before a timer or a context ends the wait.
ReadyStep(c) ==
    \/ StartBackend(c)
    \/ WaitProbeOK(c)
    \/ PublishReady(c)
    \/ DrainQueue(c)
    \/ EvictFailed(c)
    \/ Enqueue(c)
    \/ QueueDelivered(c)
    \/ IncrActiveReqs(c)
    \/ DecrActiveReqs(c)

ReadyNext ==
    \/ \E c \in 1..MainCalls : Request(c)
    \/ \E c \in Calls : ReadyStep(c)
    \/ \E b \in 1..MaxBackends : MonitorExit(b)

\* Every goroutine keeps running; further requests need not arrive.
ReadyFairSpec ==
    /\ Init /\ [][ReadyNext]_vars
    /\ WF_vars(\E c \in Calls : ReadyStep(c))
    /\ WF_vars(\E b \in 1..MaxBackends : MonitorExit(b))

\* The request path with each acquisition of m.mu under queueMu as a step of
\* its own.
LockStep(c) ==
    \/ StartBackend(c)
    \/ WaitProbeOK(c)
    \/ PublishReady(c)
    \/ DrainLockEntry(c)
    \/ DrainEntry(c)
    \/ DrainReturn(c)
    \/ EvictFailed(c)
    \/ Enqueue(c)
    \/ QueueDelivered(c)
    \/ RemoveFromQueue(c)
    \/ IncrActiveReqs(c)
    \/ DecrActiveReqs(c)

\* The goroutines that take the locks: the calls, the monitors, the health
\* checker.
LockNext ==
    \/ \E c \in 1..MainCalls : Request(c)
    \/ \E c \in Calls : LockStep(c)
    \/ \E c \in Calls : Expire(c)
    \/ \E b \in 1..MaxBackends : MonitorExit(b)
    \/ HealthLock
    \/ HealthProbe
    \/ HealthProbed
    \/ HealthUnlock

LockSpec == Init /\ [][LockNext]_vars

\* The configured models a request is resolved against: one to MaxModels
\* models with a name (Load refuses an empty one) and at most one alias.
ModelLists ==
    UNION {[1..n -> [Name : StringsUpTo(MaxNameLen) \ {<<>>},
                     Aliases : {<<>>} \cup {<<a>> : a \in StringsUpTo(MaxAliasLen)}]]
             : n \in 1..MaxModels}

\* A request with a model field (proxyToModel refuses an empty one) arrives
\* at a gateway with some list of models.
InitResolve ==
    /\ cfg = cfgS4
    /\ maxLoaded = cfgS4.MaxLoadedModels
    /\ backends = <<>>
    /\ heap = <<>>
    /\ nextPort = PortRangeStart
    /\ \E models \in ModelLists, requested \in StringsUpTo(MaxNameLen) \ {<<>>} :
         NoCallsWith([NoResolve EXCEPT !.Models = models,
                                       !.requested = requested])

ResolveNext == ResolveModel

ResolveSpec == InitResolve /\ [][ResolveNext]_vars

\* Requests for two models, proxied to their backends; what each request is
\* answered is recorded.
ProxyStep(c) ==
    \/ StartBackend(c)
    \/ WaitProbeOK(c)
    \/ PublishReady(c)
    \/ DrainQueue(c)
    \/ IncrActiveReqs(c)
    \/ ProxyReturns(c)

ProxyNext ==
    \/ \E c \in 1..MainCalls : Request(c)
    \/ \E c \in Calls : ProxyStep(c)

InitProxy == NewManager(cfgTimeout)

ProxySpec == InitProxy /\ [][ProxyNext]_vars

\* A Manager that has loaded A and B, both Ready and idle.
InitLoaded ==
    /\ NoCalls
    /\ cfg = cfgTwo
    /\ maxLoaded = cfgTwo.MaxLoadedModels
    /\ heap = <<startedBackend("A", 0, PortRangeStart, "Ready"),
                startedBackend("B", 0, PortRangeStart + 1, "Ready")>>
    /\ backends = [A |-> [backends |-> <<1>>, rrIdx |-> 0],
                   B |-> [backends |-> <<2>>, rrIdx |-> 0]]
    /\ nextPort = PortRangeStart + 2

\* A request for a model that has a Ready backend.
Acquire(c) == \E m \in DOMAIN cfg.Models : EnsureModelReady(c, m)

\* Requests for the loaded models go on arriving while Shutdown is called
\* (main calls manager.Shutdown() before server.Shutdown()).
DrainNext ==
    \/ \E c \in 1..SuperviseCalls : Acquire(c)
    \/ \E c \in Calls : IncrActiveReqs(c)
    \/ \E c \in Calls : DecrActiveReqs(c)
    \/ \E b \in 1..MaxBackends : MonitorExit(b)
    \/ ShutdownLock
    \/ ShutdownRange
    \/ ShutdownDrain
    \/ ShutdownWake
    \/ ShutdownStop
    \/ ShutdownReturn

DrainSpec == InitLoaded /\ [][DrainNext]_vars

\* A Manager that has loaded A, Ready and idle; B is configured.
InitLoadedA ==
    /\ NoCalls
    /\ cfg = cfgTwo
    /\ maxLoaded = cfgTwo.MaxLoadedModels
    /\ heap = <<startedBackend("A", 0, PortRangeStart, "Ready")>>
    /\ backends = [A |-> [backends |-> <<1>>, rrIdx |-> 0]]
    /\ nextPort = PortRangeStart + 1

\* ------------------------------------------------------- the lock protocol
\* What a Manager method does to the mutexes, in the order of its code: m.mu
\* ("mu"), m.queueMu ("queueMu"), m.modelEventMu ("modelEventMu") and
\* m.schedMu ("schedMu").  A method is the set of the sequences its branches
\* and loops allow; a loop is run at most MaxIterations times.
Lock(l) == <<"Lock", l>>
Unlock(l) == <<"Unlock", l>>

\* One sequence of the first set followed by one of the second.
Then(A, B) == {a \o b : a \in A, b \in B}

\* At most n runs of a loop body.
RECURSIVE Repeat(_, _)
Repeat(A, n) ==
    IF n = 0 THEN {<<>>} ELSE {<<>>} \cup Then(A, Repeat(A, n - 1))

Loop(A) == Repeat(A, MaxIterations)

\* m.mu.Lock(); defer m.mu.Unlock() around code that takes no other lock:
\* UpdateConfig, GetConfig, ListLoaded, ListBackendStatus, GetBackend,
\* ListConfiguredModels.
withMu == {<<Lock("mu"), Unlock("mu")>>}

\* addModelEvent, and GetModelEvents.
addModelEvent == {<<Lock("modelEventMu"), Unlock("modelEventMu")>>}

\* stopModel, called with m.mu held: the event of a group that was there.
stopModelLocks == {<<>>} \cup addModelEvent

\* StopBackendByName, UnloadModel.
StopBackendByNameLocks ==
    Then({<<Lock("mu")>>}, Then(stopModelLocks, {<<Unlock("mu")>>}))

\* removeFromQueue, GetQueueLength, and enqueue up to its wait.
withQueueMu == {<<Lock("queueMu"), Unlock("queueMu")>>}

\* drainQueue: m.mu is taken and released for each entry of the model while
\* m.queueMu is held.
drainQueueLocks ==
    Then({<<Lock("queueMu")>>}, Then(Loop(withMu), {<<Unlock("queueMu")>>}))

\* waitForReady: it returns an error, or publishes Ready under m.mu, adds
\* the event and drains the queue.
waitForReadyLocks ==
    {<<>>} \cup Then(withMu, Then(addModelEvent, drainQueueLocks))

\* A variant of the refusal that calls enqueue before it unlocks m.mu.
evictFailedLocks_Locked ==
    {<<Lock("mu"), Lock("queueMu"), Unlock("queueMu"), Unlock("mu")>>}

\* EnsureModel, evictIfNeeded fails: unlock, then enqueue (queue disabled;
\* full; or appended, and removeFromQueue on a timeout or a cancellation).
evictFailedLocks ==
    Then(withMu, {<<>>} \cup withQueueMu \cup Then(withQueueMu, withQueueMu))

\* EnsureModel: a Ready backend or a missing config; a Starting backend; the
\* refusal; the creation, after a download maybe and an eviction maybe, with
\* the failure of startBackend or the wait.
EnsureModelLocks ==
    withMu
      \cup Then(withMu, waitForReadyLocks)
      \cup evictFailedLocks
      \cup Then({<<>>} \cup withMu,
               Then({<<Lock("mu")>>},
                    Then(stopModelLocks,
                         Then({<<Unlock("mu")>>},
                              withMu \cup waitForReadyLocks))))

\* The exit monitor of startBackend: Stopped; or Failed, the event, the
\* sleep, and then nothing, or Starting, the event and startBackend, whose
\* failure gives another event and Failed.
monitorLocks ==
    withMu
      \cup Then(withMu,
               Then(addModelEvent,
                    Then(withMu,
                         {<<>>} \cup Then(addModelEvent,
                                          {<<>>} \cup Then(addModelEvent,
                                                           withMu)))))

\* A tick of HealthCheck: m.mu is held over the probes and over the event of
\* each failed one.
HealthCheckLocks ==
    Then({<<Lock("mu")>>}, Then(Loop(addModelEvent), {<<Unlock("mu")>>}))

\* Shutdown: for each group the drain loop unlocks and locks again around
\* its sleep, then stopModel; the deferred Unlock at the end.
ShutdownLocks ==
    Then({<<Lock("mu")>>},
         Then(Loop(Then(Loop({<<Unlock("mu"), Lock("mu")>>}), stopModelLocks)),
              {<<Unlock("mu")>>}))

\* A tick of runScheduledAction for unload_idle: the model is not idle; or
\* it is: unlock, UnloadModel, the event.
runScheduledActionLocks ==
    withMu \cup Then(withMu, Then(StopBackendByNameLocks, addModelEvent))

\* AddScheduledAction, RemoveScheduledAction, GetScheduledActions.
withSchedMu == {<<Lock("schedMu"), Unlock("schedMu")>>}

\* The methods goroutines run concurrently.
Methods ==
    EnsureModelLocks \cup withQueueMu \cup HealthCheckLocks
      \cup StopBackendByNameLocks \cup runScheduledActionLocks
      \cup ShutdownLocks \cup monitorLocks \cup addModelEvent
      \cup withSchedMu

Goroutines == 1..MaxGoroutines

\* A goroutine enters a method.
Enter(t) ==
    /\ prog[t] = <<>>
    /\ \E p \in Methods \ {<<>>} : prog' = [prog EXCEPT ![t] = p]
    /\ UNCHANGED <<cfg, maxLoaded, backends, heap, nextPort, queue, entryReady,
                   drain, pc, cmodel, cb, cstart, ret, env, now, locks, health,
                   shutdown, status, resolve, sched, cache>>

\* mutex.Lock() returns once no goroutine holds the mutex.
LockMutex(t) ==
    /\ prog[t] # <<>>
    /\ Head(prog[t])[1] = "Lock"
    /\ holders(Head(prog[t])[2]) = {}
    /\ locks' = [locks EXCEPT ![t] = Append(@, Head(prog[t])[2])]
    /\ prog' = [prog EXCEPT ![t] = Tail(@)]
    /\ UNCHANGED <<cfg, maxLoaded, backends, heap, nextPort, queue, entryReady,
                   drain, pc, cmodel, cb, cstart, ret, env, now, health,
                   shutdown, status, resolve, sched, cache>>

\* mutex.Unlock().
UnlockMutex(t) ==
    /\ prog[t] # <<>>
    /\ Head(prog[t])[1] = "Unlock"
    /\ locks' = [locks EXCEPT ![t] =
                    SelectSeq(@, LAMBDA l : l # Head(prog[t])[2])]
    /\ prog' = [prog EXCEPT ![t] = Tail(@)]
    /\ UNCHANGED <<cfg, maxLoaded, backends, heap, nextPort, queue, entryReady,
                   drain, pc, cmodel, cb, cstart, ret, env, now, health,
                   shutdown, status, resolve, sched, cache>>

MutexNext ==
    \/ \E t \in Goroutines : Enter(t)
    \/ \E t \in Goroutines : LockMutex(t)
    \/ \E t \in Goroutines : UnlockMutex(t)

MutexSpec == Init /\ [][MutexNext]_vars

\* The mutex a goroutine is blocked in Lock() for, if it is.
wants(t) ==
    IF prog[t] # <<>> /\ Head(prog[t])[1] = "Lock"
                     /\ holders(Head(prog[t])[2]) # {}
    THEN Head(prog[t])[2] ELSE "none"

\* Acquires of loaded models, the fast path of EnsureModel and GetBackend,
\* as time goes by.
TouchNext ==
    \/ \E c \in 1..SuperviseCalls, m \in {"A", "B"} : EnsureModelReady(c, m)
    \/ \E c \in 1..SuperviseCalls, m \in {"A", "B"} : GetBackend(c, m)
    \/ Tick

TouchSpec == InitRR /\ [][TouchNext]_vars

\* Requests for the loaded model A, the clock, and the scheduled unload of
\* A.
SchedNext ==
    \/ \E c \in 1..SuperviseCalls : Acquire(c)
    \/ \E c \in Calls : IncrActiveReqs(c)
    \/ \E c \in Calls : DecrActiveReqs(c)
    \/ Tick
    \/ ScheduledTick
    \/ ScheduledUnload

SchedSpec == InitLoadedA /\ [][SchedNext]_vars

\* The steps of a load with the download, and of the refusal when the
\* Manager is full.
DownloadStep(c) ==
    \/ DownloadFails(c)
    \/ DownloadDone(c)
    \/ Downloaded(c)
    \/ StartBackend(c)
    \/ WaitProbeOK(c)
    \/ PublishReady(c)
    \/ DrainQueue(c)
    \/ EvictFailed(c)

\* Concurrent requests for a model that is downloaded first and for one that
\* is not; no backend exits, none is unloaded.
DownloadNext ==
    \/ \E c \in 1..MainCalls : Request(c)
    \/ \E c \in Calls : DownloadStep(c)

InitDownload == NewManager(cfgDownload)

DownloadSpec == InitDownload /\ [][DownloadNext]_vars

\* Loading and using a model, no timer firing.
LoadStep(c) ==
    \/ StartBackend(c)
    \/ WaitProbeOK(c)
    \/ PublishReady(c)
    \/ DrainQueue(c)
    \/ IncrActiveReqs(c)
    \/ DecrActiveReqs(c)

\* Requests, also for a model that is not loaded, go on arriving while
\* Shutdown is called.
ShutdownNext ==
    \/ \E c \in 1..SuperviseCalls : Request(c)
    \/ \E c \in Calls : LoadStep(c)
    \/ \E b \in 1..MaxBackends : MonitorExit(b)
    \/ ShutdownLock
    \/ ShutdownRange
    \/ ShutdownDrain
    \/ ShutdownWake
    \/ ShutdownStop
    \/ ShutdownReturn

ShutdownSpec == InitLoadedA /\ [][ShutdownNext]_vars

\* ================================================================= claims
waiting(c) == pc[c] \in {"queued", "removeTimeout", "removeCancel"}

\* C1: in every reachable state the number of backends of the map that are
\* Starting or Ready is at most max_loaded.
C1_LoadedWithinMax == loaded(backends, heap) <= maxLoaded

\* The Ready backends without in-flight requests, as the claim names them.
idleReady == {b \in InMap(backends) :
                 heap[b].State = "Ready" /\ heap[b].ActiveReqs = 0}

\* The models a step deletes from the map for the call c.
evicted(c) == {v \in DOMAIN backends \ {cmodel'[c]} : v \notin DOMAIN backends'}

\* C2: when evictIfNeeded runs with the count of Starting or Ready backends
\* at max_loaded or above, it stops the model that owns a Ready backend with
\* the smallest LastUsed among the Ready backends without active requests,
\* and that model only; with no such backend it stops nothing and fails.
C2_EvictsLRUIdle ==
    [][\A c \in Calls :
         (/\ pc[c] = "idle"
          /\ pc'[c] \in {"startBackend", "evictFailed"}
          /\ loaded(backends, heap) >= maxLoaded)
            => IF idleReady = {}
               THEN /\ pc'[c] = "evictFailed"
                    /\ backends' = backends /\ heap' = heap
               ELSE /\ pc'[c] = "startBackend"
                    /\ \E v \in DOMAIN backends :
                         /\ evicted(c) = {v}
                         /\ \E b \in Range(backends[v].backends) \cap idleReady :
                              \A e \in idleReady :
                                  heap[b].LastUsed <= heap[e].LastUsed
                         /\ \A b \in Range(backends[v].backends) :
                              heap'[b].State = "Stopped"
                         /\ \A b \in InMap(backends) \ Range(backends[v].backends) :
                              heap'[b].State = heap[b].State]_vars

\* An eviction had a choice: a call is about to start the group it created,
\* a stopped backend is out of the map, and a Ready backend without active
\* requests that was used after it is still loaded.
C2_Witness ==
    /\ \E c \in Calls : pc[c] = "startBackend"
    /\ \E s \in DOMAIN heap :
         /\ heap[s].State = "Stopped" /\ s \notin InMap(backends)
         /\ \E r \in InMap(backends) :
              /\ heap[r].State = "Ready" /\ heap[r].ActiveReqs = 0
              /\ heap[r].LastUsed > heap[s].LastUsed

\* C3: a backend is stopped and removed from the map only when its
\* active_requests is 0, and this holds for every replica of the removed
\* model.
C3_StoppedOnlyIdle ==
    [][\A b \in InMap(backends) :
          (b \notin InMap(backends') /\ heap'[b].State = "Stopped")
              => heap[b].ActiveReqs = 0]_vars

\* C6: a queue entry gets exactly one outcome: a backend is put into its
\* channel at most once, a delivered entry leaves the queue in the critical
\* section of queueMu that delivered it, and a call whose entry was given a
\* backend is never answered with the timeout or the cancellation.
C6_ExactlyOneOutcome ==
    /\ [](drain.holder = 0 => \A c \in Range(queue) : entryReady[c] = 0)
    /\ [][\A c \in Calls :
            /\ (entryReady[c] # 0 => entryReady'[c] \in {0, entryReady[c]})
            /\ (pc'[c] = "done" /\ pc[c] \in {"removeTimeout", "removeCancel"}
                    => entryReady[c] = 0)]_vars

\* C7 (S5): a queued call whose timer fires returns the queue-timeout error,
\* answered 503; its entry is out of the queue, so that the queue holds only
\* entries of calls still waiting; and neither the timer nor the removal
\* changes the map, any backend or the ports.
C7_QueueTimeout ==
    /\ [](drain.holder = 0 => \A c \in Range(queue) : waiting(c))
    /\ [][\A c \in Calls :
            /\ (pc[c] = "queued" /\ pc'[c] = "removeTimeout")
                   => (backends' = backends /\ heap' = heap /\ queue' = queue)
            /\ (pc[c] = "removeTimeout" /\ pc'[c] # "removeTimeout")
                   => /\ pc'[c] = "done"
                      /\ ret' = [call |-> c, res |-> "queueTimeout"]
                      /\ StatusOf(ret'.res) = StatusServiceUnavailable
                      /\ c \notin Range(queue')
                      /\ backends' = backends /\ heap' = heap
                      /\ nextPort' = nextPort]_vars

\* S5 reached: calls 2 and 3 were queued behind the busy model of call 1 and
\* have returned after their timers fired; the queue is empty and the busy
\* model is still loaded and Ready.
C7_Witness ==
    /\ ret = [call |-> 3, res |-> "queueTimeout"]
    /\ pc[2] = "done" /\ pc[3] = "done" /\ pc[1] = "proxy"
    /\ queue = <<>>
    /\ heap[cb[1]].State = "Ready" /\ heap[cb[1]].ActiveReqs = 1
    /\ cb[1] \in InMap(backends)

\* C8 as written: in every reachable state len(queue) <= Queue.MaxSize.
C8_QueueBounded == Len(queue) <= cfg.Queue.MaxSize

\* C8 amended: the queue grows only to a length within the MaxSize in force
\* at that enqueue, and an enqueue that finds len(queue) >= MaxSize returns
\* the queue-full error, changing neither the queue nor any backend.
C8_EnqueueBounded ==
    [][/\ (Len(queue') > Len(queue) => Len(queue') <= cfg.Queue.MaxSize)
       /\ \A c \in Calls :
            (/\ pc[c] = "enqueue" /\ pc'[c] # "enqueue"
             /\ cfg.Queue.Enabled
             /\ Len(queue) >= cfg.Queue.MaxSize)
                => /\ pc'[c] = "done"
                   /\ ret' = [call |-> c, res |-> "queueFull"]
                   /\ queue' = queue /\ entryReady' = entryReady
                   /\ backends' = backends /\ heap' = heap
                   /\ nextPort' = nextPort]_vars

\* A call has just been refused by a full queue.
C8_Witness ==
    /\ ret.res = "queueFull"
    /\ pc[ret.call] = "done"
    /\ Len(queue) = cfg.Queue.MaxSize
    /\ cfg.Queue.Enabled

\* C9: a call whose eviction found nothing evictable fails with the
\* slots-busy error when queueing is disabled, and neither that call nor one
\* refused by a full queue creates a backend or takes a port at any of its
\* steps.
C9_NoOrphanOnRefusal ==
    [][\A c \in Calls :
         /\ (pc[c] = "evictFailed" /\ pc'[c] # "evictFailed" /\ ~cfg.Queue.Enabled)
               => (pc'[c] = "done" /\ ret' = [call |-> c, res |-> "evictionFailed"])
         /\ (/\ pc[c] \in {"idle", "evictFailed", "enqueue"}
             /\ pc'[c] \in {"evictFailed", "enqueue", "done"}
             /\ pc'[c] # pc[c])
               => (heap' = heap /\ backends' = backends /\ nextPort' = nextPort)
         /\ (pc'[c] = "done" /\ pc[c] # "done" /\ ret'.call = c
             /\ ret'.res \in {"evictionFailed", "queueDisabled", "queueFull"})
               => pc[c] \in {"evictFailed", "enqueue"}]_vars

\* A call has just failed with the slots-busy error, queueing being off.
C9_Witness ==
    /\ ret.res = "evictionFailed"
    /\ pc[ret.call] = "done"
    /\ ~cfg.Queue.Enabled
    /\ loaded(backends, heap) >= maxLoaded

\* S4 after the in-flight request on A is over: max_loaded is 1, the queue is
\* on, A is loaded, Ready and idle, and calls 2 and 3 wait in the queue for B.
S4Completed ==
    /\ maxLoaded = 1 /\ cfg.Queue.Enabled
    /\ pc[1] = "done"
    /\ DOMAIN backends = {"A"}
    /\ \A b \in InMap(backends) : heap[b].State = "Ready" /\ heap[b].ActiveReqs = 0
    /\ queue = <<2, 3>>
    /\ pc[2] = "queued" /\ pc[3] = "queued"
    /\ cmodel[2] = "B" /\ cmodel[3] = "B"
    /\ entryReady[2] = 0 /\ entryReady[3] = 0

\* A backend of B is in the channel of the entry.
S4Delivered(c) ==
    /\ entryReady[c] # 0
    /\ heap[entryReady[c]].model = "B"

\* C4 (S4): once the in-flight request on A is over, A is evicted, B is
\* started and both queued requests for B are delivered a backend of B.
C4_S4Drains ==
    /\ S4Completed ~> ("A" \notin DOMAIN backends /\ "B" \in DOMAIN backends
                         /\ S4Delivered(2))
    /\ S4Completed ~> S4Delivered(3)

\* x comes before y in the sequence q.
before(q, x, y) ==
    \E i, j \in DOMAIN q : i < j /\ q[i] = x /\ q[j] = y

\* C5: the drain is FIFO within a model name: no entry is given a backend
\* while an entry for the same model that was enqueued before it still waits
\* without one; and the entries that stay in the queue keep their order.
C5_DrainFIFO ==
    [][/\ \A e1, e2 \in Range(queue) :
            (/\ before(queue, e1, e2)
             /\ cmodel[e1] = cmodel[e2]
             /\ entryReady[e2] = 0 /\ entryReady'[e2] # 0)
                => ~(pc[e1] = "queued" /\ entryReady[e1] = 0)
       /\ \A x, y \in Range(queue) \cap Range(queue') :
            before(queue, x, y) => before(queue', x, y)]_vars

\* The backends the acquires of model m returned, in the order of the calls.
acquiresOf(m) ==
    LET S == {c \in Calls : pc[c] \in {"acquired", "got"} /\ cmodel[c] = m}
        nth(i) == CHOOSE c \in S : Cardinality({d \in S : d <= c}) = i
    IN [i \in 1..Cardinality(S) |-> cb[nth(i)]]

\* C10: for a model with R >= 1 Ready backends whose Ready set does not
\* change, any R consecutive acquires (fast path of EnsureModel or
\* GetBackend) return each Ready backend exactly once, so that of N
\* consecutive acquires every Ready backend gets between floor(N/R) and
\* ceil(N/R); and no acquire returns a backend that is not Ready.
C10_RoundRobin ==
    \A m \in DOMAIN backends :
        LET ready == getReadyBackends(backends[m], heap)
            R == Len(ready)
            a == acquiresOf(m)
            N == Len(a)
        IN /\ \A i \in 1..N : heap[a[i]].State = "Ready"
           /\ R >= 1 =>
                /\ \A i \in 1..(N - R + 1) :
                       {a[j] : j \in i..(i + R - 1)} = Range(ready)
                /\ \A b \in Range(ready) :
                       LET n == Cardinality({i \in 1..N : a[i] = b})
                       IN n >= N \div R /\ n <= (N + R - 1) \div R

\* Five acquires of both kinds went round the three Ready replicas of B.
C10_Witness ==
    /\ Len(getReadyBackends(backends["B"], heap)) = 3
    /\ Len(acquiresOf("B")) = MaxCalls
    /\ \E c, d \in Calls : pc[c] = "acquired" /\ pc[d] = "got"

\* C11: the auto-restart is bounded, so that a replica whose process crashes
\* on every start is respawned only finitely many times: from some moment on
\* no monitor is about to respawn its backend any more.
C11_RestartsEnd ==
    \A b \in 1..MaxBackends :
        <>[](b \in DOMAIN heap => heap[b].monitor # "restart")

\* C12: when the process of a backend exits, with whatever status, and the
\* backend was not cancelled, the monitor sets the backend Failed; after the
\* delay a backend still Failed is set Starting, and then a process is
\* spawned for the same backend on the same port.
C12_CrashSupervised ==
    [][\A b \in DOMAIN heap :
         /\ (/\ heap[b].monitor = "wait" /\ heap'[b].monitor # "wait"
             /\ heap[b].cancel # "called")
               => (heap'[b].State = "Failed" /\ heap'[b].monitor = "sleep")
         /\ (/\ heap[b].monitor = "sleep" /\ heap'[b].monitor # "sleep"
             /\ heap[b].State = "Failed")
               => (heap'[b].State = "Starting" /\ heap'[b].monitor = "restart")
         /\ (heap[b].monitor = "restart" /\ heap'[b].monitor # "restart")
               => (/\ heap'[b].Process = "running"
                   /\ heap'[b].Port = heap[b].Port
                   /\ heap'[b].monitor = "wait")]_vars

\* C16: no process is started for a backend that has been cancelled.
C16_NoRespawnAfterCancel ==
    [][\A b \in DOMAIN heap :
         heap[b].cancel = "called"
             => ~(heap[b].Process # "running" /\ heap'[b].Process = "running")]_vars

\* C13: every Starting backend whose process runs and answers the probe,
\* whichever replica of its group it is, eventually becomes Ready (unless
\* its process is ended first).
C13_StartingBecomesReady ==
    \A b \in 1..MaxBackends :
        (b \in DOMAIN heap /\ heap[b].State = "Starting"
                           /\ heap[b].Process = "running")
            ~> (b \in DOMAIN heap /\ (\/ heap[b].State = "Ready"
                                      \/ heap[b].Process # "running"))

\* C14: a waiter whose readiness ceiling elapses gets the startup-timeout
\* error, and the backend it waited for is Failed then.
C14_TimeoutFails ==
    [][\A c \in Calls :
         (pc[c] = "waitForReady" /\ pc'[c] = "done"
             /\ ret' = [call |-> c, res |-> "startTimeout"])
            => heap'[cb[c]].State = "Failed"]_vars

\* The state changes of a backend that the lifecycle allows, Stopped apart.
LifecycleSteps ==
    {<<"Starting", "Ready">>, <<"Starting", "Failed">>,
     <<"Ready", "Failed">>, <<"Failed", "Starting">>}

\* C15: the state of a backend changes only from Starting to Ready or
\* Failed, from Ready to Failed, from Failed to Starting, and from any state
\* to Stopped, which it never leaves.
C15_Lifecycle ==
    [][\A b \in DOMAIN heap :
         \/ heap'[b].State = heap[b].State
         \/ heap'[b].State = "Stopped"
         \/ <<heap[b].State, heap'[b].State>> \in LifecycleSteps]_vars

\* The monitor of the backend has an exit to observe or a respawn to make.
monitorPending(b) ==
    \/ heap[b].monitor = "wait" /\ heap[b].Process # "running"
    \/ heap[b].monitor = "restart"

\* C17: a backend that is Starting or Ready after its spawn has a live
\* process, save for the moments in which its monitor has yet to observe
\* the exit or to make the respawn.
C17_OneLiveProcess ==
    \A b \in DOMAIN heap :
        (heap[b].State \in {"Starting", "Ready"} /\ heap[b].cancel # "nil")
            => (heap[b].Process = "running" \/ monitorPending(b))

\* The calls that are between the increment and the decrement on backend b.
inFlight(b) == {c \in Calls : pc[c] = "proxy" /\ cb[c] = b}

\* C18: active_requests of a backend is never negative and is the number of
\* proxied requests in flight on it: each request adds one after it acquired
\* the backend and takes one off on whichever path it ends, so that the
\* counter is 0 when none is in flight.
C18_ActiveReqsBalanced ==
    \A b \in DOMAIN heap :
        /\ heap[b].ActiveReqs >= 0
        /\ heap[b].ActiveReqs = Cardinality(inFlight(b))

\* Two requests got a backend; the later one is over, the earlier one is
\* still in flight and is the only one its backend counts.
C18_Witness ==
    /\ ret.res = "ok" /\ ret.call # 0
    /\ pc[ret.call] = "done"
    /\ \E c \in Calls :
         /\ pc[c] = "proxy"
         /\ heap[cb[c]].ActiveReqs = 1

\* A backend that holds its port: Starting or Ready, or its process runs.
live(b) ==
    \/ heap[b].State \in {"Starting", "Ready"}
    \/ heap[b].Process = "running"

\* C19: no two live backends have the same port.
C19_PortsUnique ==
    \A b1, b2 \in DOMAIN heap :
        (b1 # b2 /\ live(b1) /\ live(b2)) => heap[b1].Port # heap[b2].Port

\* After a group was stopped and removed, two backends created later are
\* live.
C19_Witness ==
    \E s, b1, b2 \in DOMAIN heap :
        /\ heap[s].State = "Stopped" /\ s \notin InMap(backends)
        /\ s < b1 /\ b1 < b2
        /\ live(b1) /\ live(b2)

\* The ports of the backends of removed groups: what a freelist would hold.
released(hp, bk) ==
    {hp[b].Port : b \in {x \in DOMAIN hp : hp[x].State = "Stopped"
                                            /\ x \notin InMap(bk)}}

\* C20: the ports of a removed group are free to be taken again, and an
\* allocation takes a released port before it advances the counter: the
\* group EnsureModel creates while a released port exists is given one.
C20_PortRecycled ==
    [][\A c \in Calls :
         (pc[c] = "idle" /\ pc'[c] = "startBackend"
             /\ released(heap', backends') # {})
            => \E b \in Range(cstart'[c]) :
                   heap'[b].Port \in released(heap', backends')]_vars

\* C21: Shutdown stops every child process within 30 seconds of being
\* called, however many models are loaded and whether or not requests are
\* still in flight: once the call is more than 30 seconds old, no backend
\* that was in the map when it began has a running process.
C21_ShutdownWithin30s ==
    shutdown.clock > DrainCeiling
        => \A b \in shutdown.found : heap[b].Process # "running"

\* C22: Shutdown is idempotent: a second call that follows a completed one,
\* no acquire being under way or arriving from the return of the first to
\* the return of the second, leaves the map, the state of every backend and
\* the queue as the first call left them.
C22_ShutdownIdempotent ==
    [][(/\ shutdown.calls = 1 /\ shutdown'.calls = 2
        /\ shutdown.left.quiet
        /\ shutdown.left.idle = {c \in Calls : pc[c] = "idle"})
          => /\ backends' = shutdown.left.backends
             /\ queue' = shutdown.left.queue
             /\ \A b \in DOMAIN shutdown.left.State :
                    heap'[b].State = shutdown.left.State[b]]_vars

\* The goroutine is at a suspension point: a call polls the readiness probe
\* or waits in the queue, the health checker waits for the answer to its
\* probe, Shutdown sleeps in its drain loop.
suspended(t) ==
    \/ t \in Calls /\ pc[t] \in {"waitForReady", "queued"}
    \/ t = healthChecker /\ health.pc = "probing"
    \/ t = shutdownCaller /\ shutdown.pc = "sleep"

\* C23: m.mu is never held across a suspension point, so that an EnsureModel
\* for a model with a Ready backend never finds m.mu held by a goroutine
\* that waits for the answer to a probe.
C23_NoLockWhileSuspended ==
    /\ \A t \in Threads : suspended(t) => t \notin holders("mu")
    /\ (/\ health.pc = "probing"
        /\ \E m \in DOMAIN backends : getReadyBackends(backends[m], heap) # <<>>)
           => muFree

\* C24: a goroutine that holds m.mu and queueMu together took m.mu first,
\* and is in the drain path; none takes m.mu while it holds queueMu.
C24_StateBeforeQueue ==
    \A t \in holders("mu") \cap holders("queueMu") :
        /\ locks[t] = <<"mu", "queueMu">>
        /\ t \in Calls /\ pc[t] = "drainEntry"

\* The names of the models that satisfy Test.
namesAt(models, S) == {models[i].Name : i \in S}

\* C25: a request resolves to the model whose name equals the requested
\* string if there is one; otherwise to a model that lists it as an alias;
\* otherwise to the first model whose name contains it, case ignored;
\* otherwise to none, answered 404.
C25_ResolvePrecedence ==
    resolve.done =>
        LET models == resolve.Models
            requested == resolve.requested
            exact == namesAt(models, exactAt(models, requested))
            alias == namesAt(models, aliasAt(models, requested))
            partial == firstIndex(partialAt(models, requested))
        IN /\ IF exact # {} THEN resolve.modelName = requested
              ELSE IF alias # {} THEN resolve.modelName \in alias
              ELSE resolve.modelName = nameAt(models, partial)
           /\ resolve.code = StatusNotFound <=> resolve.modelName = <<>>
           /\ resolve.code \in {0, StatusNotFound}

\* C26: a request without streaming whose request_timeout elapses before
\* the response is complete, be it before the headers or in the body, is
\* answered 504, which is not the 502 of a failed dial; and a request
\* without streaming is never answered a success status with a truncated
\* body.
C26_DeadlineIs504 ==
    \A c \in Calls :
        /\ status[c].exit \in {"deadlineHeaders", "deadlineBody"}
               => status[c].code = 504
        /\ (~status[c].stream /\ status[c].body = "truncated")
               => status[c].code \notin 200..299

\* C27: a request whose dial fails is answered 502 and its return changes
\* nothing in the Manager but active_requests of its backend, which is one
\* less and counts the other requests in flight on the backend again: the
\* map, the queue, the ports and every backend's state and LastUsed are as
\* before.
C27_DialFailureFrame ==
    [][\A c \in Calls :
         (status[c].exit = "none" /\ status'[c].exit = "dialFailed")
            => /\ status'[c].code = StatusBadGateway
               /\ backends' = backends /\ queue' = queue
               /\ nextPort' = nextPort /\ entryReady' = entryReady
               /\ heap' = [heap EXCEPT ![cb[c]].ActiveReqs = @ - 1]
               /\ heap'[cb[c]].ActiveReqs = Cardinality(inFlight(cb[c]) \ {c})]_vars

\* The dial of a request failed while another request was in flight on the
\* same backend, which is Ready and counts that one.
C27_Witness ==
    \E c, d \in Calls :
        /\ status[c].exit = "dialFailed" /\ pc[c] = "done"
        /\ pc[d] = "proxy" /\ cb[d] = cb[c]
        /\ heap[cb[d]].State = "Ready" /\ heap[cb[d]].ActiveReqs = 1

\* C28: a reload stops no backend and changes no backend's state, port,
\* LastUsed or active_requests, nor the map, nor the queue; it replaces the
\* config and the capacity bound, which is the one of the config in force
\* whenever an acquire looks at it.
C28_ReloadFrame ==
    /\ [](maxLoaded = cfg.MaxLoadedModels)
    /\ [][cfg' # cfg
            => /\ heap' = heap /\ backends' = backends
               /\ queue' = queue /\ entryReady' = entryReady
               /\ nextPort' = nextPort /\ pc' = pc]_vars

\* The config was reloaded, to one without queueing, while a request was in
\* flight and another waited in the queue.
C28_Witness ==
    /\ cfg = cfgNoQueue /\ maxLoaded = cfgNoQueue.MaxLoadedModels
    /\ queue # <<>>
    /\ \E c \in Calls : pc[c] = "proxy" /\ heap[cb[c]].ActiveReqs = 1

\* C29: a new Manager has no backend and no process; a backend is created
\* only by an EnsureModel call for its model and its process is started only
\* by that call, or again by its monitor after an exit; the first acquire, for A with one instance, creates exactly
\* one backend, Starting on PortRangeStart; and once that backend is Ready,
\* unless A was unloaded meanwhile, the listing of /health is exactly [A].
C29_LazyLoad ==
    /\ (heap = <<>> /\ backends = <<>>)
    /\ [][\A b \in DOMAIN heap' :
            /\ b \notin DOMAIN heap
                 => \E c \in Calls : /\ pc[c] = "idle"
                                     /\ pc'[c] = "startBackend"
                                     /\ cmodel'[c] = heap'[b].model
                                     /\ heap'[b].Process = "nil"
            /\ (b \in DOMAIN heap /\ heap[b].Process = "nil"
                                  /\ heap'[b].Process # "nil")
                 => \/ \E c \in Calls : /\ pc[c] = "startBackend"
                                        /\ cmodel[c] = heap[b].model
                                        /\ Head(cstart[c]) = b
                    \/ heap[b].monitor = "restart"]_vars
    /\ [][(/\ heap = <<>> /\ backends = <<>>
           /\ instancesOf("A") = 1
           /\ \E c \in Calls : pc[c] = "idle" /\ cmodel'[c] = "A")
            => /\ Len(heap') = 1
               /\ heap'[1].model = "A" /\ heap'[1].State = "Starting"
               /\ heap'[1].Port = PortRangeStart
               /\ backends' = [x \in {"A"} |-> [backends |-> <<1>>, rrIdx |-> 0]]
               /\ ListLoaded(backends', heap') = {<<>>}]_vars
    /\ []((/\ Len(heap) = 1
            /\ heap[1].model = "A" /\ heap[1].State = "Ready"
            /\ 1 \in InMap(backends))
             => (/\ ListLoaded(backends, heap) = {<<"A">>}
                 /\ heap[1].Port = PortRangeStart))

\* The first acquire was for A, its one backend runs on PortRangeStart, is
\* Ready, and the listing is [A].
C29_Witness ==
    /\ Len(heap) = 1 /\ heap[1].model = "A" /\ heap[1].State = "Ready"
    /\ heap[1].Port = PortRangeStart /\ heap[1].Process = "running"
    /\ ListLoaded(backends, heap) = {<<"A">>}

\* C30: however many EnsureModel calls ask for a model that is not loaded
\* yet, with or without the download, the model's backends are created only
\* once: while nothing is stopped, no more backends exist for a model than it
\* has instances.
C30_StartsOnce ==
    \A m \in DOMAIN cfg.Models :
        Cardinality({b \in DOMAIN heap : heap[b].model = m}) <= instancesOf(m)

\* C31: when EnsureModel stores a new group under a name that is in the map
\* already, no backend of the group it replaces has a running process, nor a
\* monitor that is about to start one again.
C31_ReplacedGroupIsDead ==
    [][\A m \in (DOMAIN backends) \cap (DOMAIN backends') :
          backends'[m].backends # backends[m].backends
            => \A b \in Range(backends[m].backends) :
                  /\ heap'[b].Process # "running"
                  /\ heap'[b].monitor # "restart"
                  /\ ~(heap'[b].monitor = "sleep" /\ heap'[b].State = "Failed")]_vars

\* C32: the eviction an EnsureModel call makes for its model stops no
\* backend that another call got from EnsureModel and has not released: not
\* one whose caller is about to increment active_requests, and not one with
\* the request in flight.
C32_AcquiredNotEvicted ==
    [][(\E c \in Calls : pc[c] = "idle" /\ pc'[c] = "startBackend")
         => \A d \in Calls :
               (/\ pc[d] \in {"acquired", "proxy"}
                /\ heap[cb[d]].State = "Ready")
                 => heap'[cb[d]].State = "Ready"]_vars

\* C33: once a Shutdown call has returned, no backend is Starting or Ready
\* and no child process runs, whatever requests arrived during the drain
\* sleep or arrive afterwards.
C33_NothingAfterShutdown ==
    shutdown.calls >= 1
        => \A b \in DOMAIN heap : /\ heap[b].State \notin {"Starting", "Ready"}
                                  /\ heap[b].Process # "running"

\* C34: no set of goroutines is such that each of them is blocked in Lock()
\* for a mutex that one of them holds; and no goroutine unlocks a mutex it
\* does not hold or returns holding one.
C34_NoCyclicWait ==
    /\ \A S \in SUBSET Goroutines :
          S # {} => \E t \in S : holders(wants(t)) \cap S = {}
    /\ \A t \in Goroutines :
          /\ prog[t] = <<>> => locks[t] = <<>>
          /\ (prog[t] # <<>> /\ Head(prog[t])[1] = "Unlock")
                => t \in holders(Head(prog[t])[2])

\* drainQueue holds m.queueMu and is blocked for m.mu, which a goroutine
\* holds that is blocked for m.modelEventMu, held by a third.
C34_Witness ==
    \E t, u, v \in Goroutines :
        /\ locks[t] = <<"queueMu">> /\ wants(t) = "mu"
        /\ locks[u] = <<"mu">> /\ wants(u) = "modelEventMu"
        /\ locks[v] = <<"modelEventMu">>

\* C35: whenever m.queueMu is free for GetQueueLength, the queue holds, each
\* once, exactly the entries of the callers that are inside enqueue with
\* nothing delivered to them: the entry of a call that returned, by
\* delivery, timeout or cancellation, is not in it, and the length reported
\* is the number of waiting callers.
C35_QueueIsTheWaiting ==
    drain.holder = 0 =>
        LET inEnqueue == {c \in Calls :
                          /\ pc[c] \in {"queued", "removeTimeout", "removeCancel"}
                          /\ entryReady[c] = 0}
        IN /\ Range(queue) = inEnqueue
           /\ GetQueueLength = Cardinality(inEnqueue)

\* A caller has returned from the queue on its timeout while another one
\* still waits in it.
C35_Witness ==
    /\ drain.holder = 0
    /\ ret.res = "queueTimeout"
    /\ GetQueueLength = 1
    /\ \E c \in Calls : pc[c] = "done" /\ c \notin Range(queue)

\* C36: a tick of the health check probes only backends that are Ready; the
\* answer of a probe either changes nothing or sets the probed backend, and
\* nothing but its state, to Failed; no step of the tick changes the map or
\* a backend that is Starting, Failed or Stopped.
C36_ProbeOnlyReady ==
    [][health' # health
         => /\ backends' = backends
            /\ \A b \in DOMAIN heap : heap[b].State # "Ready" => heap'[b] = heap[b]
            /\ health'.pc = "probing" => heap[health'.probing].State = "Ready"
            /\ health.pc # "probing" => heap' = heap
            /\ health.pc = "probing"
                 => \/ heap' = heap
                    \/ heap' = [heap EXCEPT ![health.probing].State = "Failed"]]_vars

\* A probe failed: a backend in the map is Failed with its process running,
\* and the tick is going on to the next backend.
C36_Witness ==
    /\ health.pc = "range"
    /\ \E b \in InMap(backends) :
          /\ heap[b].State = "Failed" /\ heap[b].Process = "running"
          /\ b \notin health.todo

\* C37: when the scheduled unload_idle action stops its model, every backend
\* of the model has no request in flight and was last used at least AfterMin
\* ago.
C37_UnloadsOnlyIdle ==
    [][(sched.pc = "unload" /\ sched'.pc = "idle"
          /\ sched.action.Model \in DOMAIN backends)
         => allIdle(backends[sched.action.Model], heap,
                    sched.action.AfterMin, now)]_vars

C39_TouchesReturnedOnly ==
    [][\A c \in Calls :
          (pc[c] = "idle" /\ pc'[c] = "acquired")
            => heap' = [heap EXCEPT ![cb'[c]].LastUsed = now]]_vars

\* C40: the cache never holds more than MaxEntries entries, and an entry
\* that Set evicts was the least recently used one: no other entry was set
\* or read longer ago.
C40_EvictsLeastRecentlyUsed ==
    /\ [](Cardinality(DOMAIN cache.entries) <= MaxEntries)
    /\ [][\A k \in DOMAIN cache.entries :
            (k \notin DOMAIN cache'.entries /\ cache'.entries # cache.entries
               /\ Cardinality(DOMAIN cache'.entries) >= 1
               /\ \E n \in DOMAIN cache'.entries :
                      cache'.entries[n] = cache.clock)
              => \A j \in DOMAIN cache.entries :
                     cache.used[k] <= cache.used[j]]_vars

====
